---- MODULE Spec2Model ----
(***************************************************************************)
(* sugar::vector<T, Alloc> (src/vector.h) over the pass-through allocator  *)
(* and the construct/destroy protocol of src/allocator.h.                  *)
(*                                                                         *)
(* The heap is a set of buffers; a buffer is a sequence of slots.  A slot  *)
(* is RAW (no object lives there) or holds the value of a live object.     *)
(* Pointers are (buffer, offset) pairs; the null pointer is NULL.          *)
(* Every operation is a function from machine to machine, a machine being  *)
(* the heap, the vector objects, the log of allocator calls made by the    *)
(* running operation, its return value and the exception in flight.        *)
(***************************************************************************)
EXTENDS Integers, Sequences, FiniteSets, TLC

\* ------------------------------------------------------------------ bounds
\* largest size the vector "v" is allowed to grow to
MaxSize == 3

\* ------------------------------------------------------------ element type
\* Element values of T.  MOVED is what a moved-from T holds (TestObject sets
\* other.value = -1); GARBAGE is the indeterminate result of reading a slot
\* in which no object lives; RAW marks such a slot.
Values == {"a", "b"}
MOVED == "moved-from"
GARBAGE == "indeterminate"
RAW == "raw"

\* "v" is the vector under study; "other" is the second operand of swap, copy
\* and move: a local of the calling block, destroyed when the block is left
Vecs == {"v", "other"}
BufIds == {1, 2, 3}

Ptr(b, o) == [b |-> b, o |-> o]
NULL == Ptr(0, 0)

VARIABLES
    heap,   \* BufIds -> sequence of slots; <<>> when the buffer is not allocated
    vec,    \* Vecs -> [begin_, end_, end_cap_]
    alive,  \* the vector object "v" is within its lifetime
    hist,   \* the values pushed since "v" was last empty, while only push_back ran
    sys,    \* the system heap: SysIds -> byte size of the live allocation, 0 when free
    pool,   \* a pool_allocator<T, BlockSize> object
    out,    \* the allocations handed out by the two allocators and not yet given back
    T,      \* the element type the two allocators are instantiated with
    twin    \* a vector<int, pool_allocator<int>> run side by side with "v"

avars == <<sys, pool, out, T>>

vars == <<heap, vec, alive, hist, sys, pool, out, T, twin>>

\* ------------------------------------------------------------- the machine
Machine(h, vs) == [heap |-> h, vec |-> vs, log |-> <<>>, ret |-> NULL, exc |-> "none"]

Event(e, p, n, l) == [e |-> e, b |-> p.b, o |-> p.o, n |-> n, live |-> l]

Logged(M, ev) == [M EXCEPT !.log = Append(@, ev)]

Slot(M, p) == M.heap[p.b][p.o + 1]

SetSlot(M, p, x) == [M EXCEPT !.heap[p.b][p.o + 1] = x]

\* the value a read of *p yields: reading a slot without a live object is
\* undefined and yields an indeterminate value
Read(M, p) == IF Slot(M, p) = RAW THEN GARBAGE ELSE Slot(M, p)

PtrAdd(p, n) == Ptr(p.b, p.o + n)

\* ------------------------------------------------- allocator<T> (allocator.h)
\* the address ::operator new returns: a buffer that is not allocated
NewBuf(M) == CHOOSE b \in BufIds :
                /\ M.heap[b] = <<>>
                /\ \A c \in BufIds : M.heap[c] = <<>> => b <= c

\* allocator::allocate(n), n > 0: n raw slots
allocate(M, n) ==
    LET b == NewBuf(M)
    IN  Logged([M EXCEPT !.heap[b] = [i \in 1..n |-> RAW]],
               Event("allocate", Ptr(b, 0), n, FALSE))

\* a faulty allocation that asks ::operator new a second time before giving
\* up: C19 must not hold of it
allocate_fails_after_retry(M, n) ==
    Logged(Logged([M EXCEPT !.exc = "bad_alloc"],
                  Event("operator new", NULL, n, FALSE)),
           Event("operator new", NULL, n, FALSE))

\* sugar::allocate(size) when ::operator new cannot satisfy the request: the
\* one call to ::operator new throws std::bad_alloc
allocate_fails(M, n) ==
    Logged([M EXCEPT !.exc = "bad_alloc"], Event("operator new", NULL, n, FALSE))

\* the value of failAt that stands for "the allocation of the new buffer fails"
OOM == -1

\* allocator_traits<Alloc>::allocate(allocator_, n), n > 0, where the system
\* has memory for it or not
traits_allocate(M, n, oom) == IF oom THEN allocate_fails(M, n) ELSE allocate(M, n)

\* allocator::deallocate(ptr, n): a null ptr is ignored, the count is unused
deallocate(M, p, n) ==
    IF p = NULL THEN M
    ELSE Logged([M EXCEPT !.heap[p.b] = <<>>],
                Event("deallocate", p, n, M.heap[p.b] # <<>> /\ p.o = 0))

\* construct(ptr, value): placement new
construct(M, p, x) ==
    Logged(SetSlot(M, p, x), Event("construct", p, 1, Slot(M, p) # RAW))

\* destroy(ptr): ptr->~T()
destroy(M, p) ==
    Logged(SetSlot(M, p, RAW), Event("destroy", p, 1, Slot(M, p) # RAW))

\* *dst = sugar::move(*src): T::operator=(T&&).  Assigning to a slot that
\* holds no object does not start an object's lifetime there.
move_assign(M, dst, src) ==
    IF dst = src THEN M
    ELSE LET x  == Read(M, src)
             M1 == IF Slot(M, dst) = RAW THEN M ELSE SetSlot(M, dst, x)
             M2 == IF Slot(M1, src) = RAW THEN M1 ELSE SetSlot(M1, src, MOVED)
         IN  Logged(M2, Event("assign", dst, 1, Slot(M, dst) # RAW))

\* ------------------------------------------------------ vector: observers
begin(M, self) == M.vec[self].begin_
end(M, self) == M.vec[self].end_

size(M, self) == M.vec[self].end_.o - M.vec[self].begin_.o

capacity(M, self) == M.vec[self].end_cap_.o - M.vec[self].begin_.o

empty(M, self) == M.vec[self].begin_ = M.vec[self].end_

\* ------------------------------------------------ vector: element access
\* SUGAR_THROW_OUT_OF_RANGE_IF(expr, what): throw std::out_of_range
SUGAR_THROW_OUT_OF_RANGE_IF(M, expr) ==
    IF expr THEN [M EXCEPT !.exc = "out_of_range"] ELSE M

\* a faulty at() whose bounds check lets the index size() through: C12 must
\* not hold of it
at_off_by_one(M, self, pos) ==
    LET M1 == SUGAR_THROW_OUT_OF_RANGE_IF(M, pos > size(M, self))
    IN  IF M1.exc # "none" THEN M1
        ELSE [M1 EXCEPT !.ret = PtrAdd(begin(M, self), pos)]

\* at(size_type pos): the reference begin_[pos]
at(M, self, pos) ==
    LET M1 == SUGAR_THROW_OUT_OF_RANGE_IF(M, pos >= size(M, self))
    IN  IF M1.exc # "none" THEN M1
        ELSE [M1 EXCEPT !.ret = PtrAdd(begin(M, self), pos)]

\* front(): the reference *begin_
front(M, self) ==
    LET M1 == SUGAR_THROW_OUT_OF_RANGE_IF(M, empty(M, self))
    IN  IF M1.exc # "none" THEN M1 ELSE [M1 EXCEPT !.ret = begin(M, self)]

\* back(): the reference *(end_ - 1)
back(M, self) ==
    LET M1 == SUGAR_THROW_OUT_OF_RANGE_IF(M, empty(M, self))
    IN  IF M1.exc # "none" THEN M1 ELSE [M1 EXCEPT !.ret = PtrAdd(end(M, self), -1)]

\* ------------------------------------------------ vector: private helpers
\* a growth to exactly the size asked for: C27 must not hold of it
calculate_new_capacity_exact(M, self, new_size) ==
    IF new_size > capacity(M, self) THEN new_size ELSE capacity(M, self)

calculate_new_capacity(M, self, new_size) ==
    LET old_capacity == capacity(M, self)
    IN  IF new_size > old_capacity
        THEN LET new_capacity == IF old_capacity = 0 THEN 1 ELSE old_capacity * 2
             IN  IF new_capacity < new_size THEN new_size ELSE new_capacity
        ELSE old_capacity

RECURSIVE DestroyRange(_, _, _)
\* for (p = first; p != last; ++p) destroy(p)
DestroyRange(M, p, lastp) ==
    IF p = lastp THEN M ELSE DestroyRange(destroy(M, p), PtrAdd(p, 1), lastp)

destroy_all(M, self) ==
    IF M.vec[self].begin_ # NULL
    THEN DestroyRange(M, M.vec[self].begin_, M.vec[self].end_)
    ELSE M

\* a faulty deallocate_all that passes size() as the count: C18 must not hold
\* of it
deallocate_all_passes_size(M, self) ==
    IF M.vec[self].begin_ # NULL
    THEN LET M1 == deallocate(M, M.vec[self].begin_, size(M, self))
         IN  [M1 EXCEPT !.vec[self] = [begin_ |-> NULL, end_ |-> NULL, end_cap_ |-> NULL]]
    ELSE M

deallocate_all(M, self) ==
    IF M.vec[self].begin_ # NULL
    THEN LET M1 == deallocate(M, M.vec[self].begin_, capacity(M, self))
         IN  [M1 EXCEPT !.vec[self] = [begin_ |-> NULL, end_ |-> NULL, end_cap_ |-> NULL]]
    ELSE M

RECURSIVE MoveLoopReadsAfterMove(_, _, _, _, _, _)
\* a faulty MoveLoop that constructs from the source after it was moved from:
\* C6 must not hold of it
MoveLoopReadsAfterMove(M, p, lastp, new_end, k, failAt) ==
    IF p = lastp THEN [m |-> M, new_end |-> new_end, threw |-> FALSE]
    ELSE IF k = failAt THEN [m |-> M, new_end |-> new_end, threw |-> TRUE]
    ELSE LET M1 == IF Slot(M, p) = RAW THEN M ELSE SetSlot(M, p, MOVED)
             M2 == construct(M1, new_end, Read(M1, p))
         IN  MoveLoopReadsAfterMove(M2, PtrAdd(p, 1), lastp, PtrAdd(new_end, 1),
                                    k + 1, failAt)

RECURSIVE MoveLoop(_, _, _, _, _, _)
\* the try block of reallocate: move-construct [p, lastp) at new_end onwards;
\* the failAt-th construction (counted by k) throws before it touches anything
MoveLoop(M, p, lastp, new_end, k, failAt) ==
    IF p = lastp THEN [m |-> M, new_end |-> new_end, threw |-> FALSE]
    ELSE IF k = failAt THEN [m |-> M, new_end |-> new_end, threw |-> TRUE]
    ELSE LET x  == Read(M, p)
             M1 == construct(M, new_end, x)
             M2 == IF Slot(M1, p) = RAW THEN M1 ELSE SetSlot(M1, p, MOVED)
         IN  MoveLoop(M2, PtrAdd(p, 1), lastp, PtrAdd(new_end, 1), k + 1, failAt)

\* a faulty catch block that rethrows without freeing the new buffer: C4 must
\* not hold of it
RollbackLeaksBuffer(M, new_begin, new_end, new_capacity) ==
    [DestroyRange(M, new_begin, new_end) EXCEPT !.exc = "element"]

\* the catch block of reallocate: destroy [new_begin, new_end), free the new
\* buffer, rethrow
Rollback(M, new_begin, new_end, new_capacity) ==
    LET M1 == DestroyRange(M, new_begin, new_end)
        M2 == deallocate(M1, new_begin, new_capacity)
    IN  [M2 EXCEPT !.exc = "element"]

\* a faulty reallocate that leaves end_cap_ at the old buffer: C3 must not hold
\* of it
reallocate_keeps_end_cap(M, self, new_capacity, failAt) ==
    IF new_capacity = 0 THEN deallocate_all(M, self)
    ELSE LET new_begin == Ptr(NewBuf(M), 0)
             M1 == traits_allocate(M, new_capacity, failAt = OOM)
             r  == MoveLoop(M1, M1.vec[self].begin_, M1.vec[self].end_,
                            new_begin, 1, failAt)
         IN  IF M1.exc # "none" THEN M1
             ELSE IF r.threw
             THEN Rollback(r.m, new_begin, r.new_end, new_capacity)
             ELSE LET M2 == destroy_all(r.m, self)
                      old_cap == M2.vec[self].end_cap_
                      M3 == deallocate_all(M2, self)
                  IN  [M3 EXCEPT !.vec[self] =
                          [begin_   |-> new_begin,
                           end_     |-> r.new_end,
                           end_cap_ |-> old_cap]]

reallocate(M, self, new_capacity, failAt) ==
    IF new_capacity = 0 THEN deallocate_all(M, self)
    ELSE LET new_begin == Ptr(NewBuf(M), 0)
             M1 == traits_allocate(M, new_capacity, failAt = OOM)
             r  == MoveLoop(M1, M1.vec[self].begin_, M1.vec[self].end_,
                            new_begin, 1, failAt)
         IN  IF M1.exc # "none" THEN M1
             ELSE IF r.threw
             THEN Rollback(r.m, new_begin, r.new_end, new_capacity)
             ELSE LET M2 == destroy_all(r.m, self)
                      M3 == deallocate_all(M2, self)
                  IN  [M3 EXCEPT !.vec[self] =
                          [begin_   |-> new_begin,
                           end_     |-> r.new_end,
                           end_cap_ |-> PtrAdd(new_begin, new_capacity)]]

ensure_capacity(M, self, new_size, failAt) ==
    IF new_size > capacity(M, self)
    THEN reallocate(M, self, calculate_new_capacity(M, self, new_size), failAt)
    ELSE M

\* ---------------------------------------------------- vector: modifiers
\* construct at end_, ++end_
EmplaceEnd(M, self, x) ==
    LET M1 == construct(M, M.vec[self].end_, x)
    IN  [M1 EXCEPT !.vec[self].end_ = PtrAdd(@, 1)]

\* push_back(const T& value)
push_back(M, self, x, failAt) ==
    LET M1 == ensure_capacity(M, self, size(M, self) + 1, failAt)
    IN  IF M1.exc # "none" THEN M1 ELSE EmplaceEnd(M1, self, x)

\* what a read through a reference yields: the object when its buffer is
\* still allocated; once the buffer is freed the reference dangles, the read
\* is undefined, and g is what it happens to yield
Deref(M, p, g) == IF M.heap[p.b] = <<>> THEN g ELSE Read(M, p)

\* push_back(const T& value) with value bound to the element at p: value is
\* read by construct, after ensure_capacity has returned
push_back_ref(M, self, p, failAt, g) ==
    LET M1 == ensure_capacity(M, self, size(M, self) + 1, failAt)
    IN  IF M1.exc # "none" THEN M1 ELSE EmplaceEnd(M1, self, Deref(M1, p, g))

\* push_back(T&& value)
push_back_move(M, self, x, failAt) ==
    LET M1 == ensure_capacity(M, self, size(M, self) + 1, failAt)
    IN  IF M1.exc # "none" THEN M1 ELSE EmplaceEnd(M1, self, x)

pop_back(M, self) ==
    IF ~empty(M, self)
    THEN LET M1 == [M EXCEPT !.vec[self].end_ = PtrAdd(@, -1)]
         IN  destroy(M1, M1.vec[self].end_)
    ELSE M

\* a faulty clear that also gives the buffer back: C7 must not hold of it
clear_releasing(M, self) == deallocate_all(destroy_all(M, self), self)

clear(M, self) ==
    LET M1 == destroy_all(M, self)
    IN  [M1 EXCEPT !.vec[self].end_ = M1.vec[self].begin_]

RECURSIVE FillLoop(_, _, _, _)
\* for (i = 0; i < count; ++i) construct(p + i, value)
FillLoop(M, p, count, x) ==
    IF count = 0 THEN M
    ELSE FillLoop(construct(M, p, x), PtrAdd(p, 1), count - 1, x)

RECURSIVE CopyLoop(_, _, _)
\* for (it = first; it != last; ++it, ++current) construct(current, *it)
CopyLoop(M, current, w) ==
    IF w = <<>> THEN M
    ELSE CopyLoop(construct(M, current, Head(w)), PtrAdd(current, 1), Tail(w))

RECURSIVE ShiftRight(_, _, _, _)
\* for (it = end(); it != insert_pos; --it) *(it + count - 1) = move(*(it - 1))
ShiftRight(M, it, insert_pos, count) ==
    IF it = insert_pos THEN M
    ELSE ShiftRight(move_assign(M, PtrAdd(it, count - 1), PtrAdd(it, -1)),
                    PtrAdd(it, -1), insert_pos, count)

\* insert(const_iterator pos, size_type count, const T& value)
insert_fill(M, self, pos, count, x, failAt) ==
    IF count = 0 THEN [M EXCEPT !.ret = pos]
    ELSE LET offset == pos.o - begin(M, self).o
             M1 == ensure_capacity(M, self, size(M, self) + count, failAt)
             insert_pos == PtrAdd(begin(M1, self), offset)
             M2 == ShiftRight(M1, end(M1, self), insert_pos, count)
             M3 == FillLoop(M2, insert_pos, count, x)
         IN  IF M1.exc # "none" THEN M1
             ELSE [M3 EXCEPT !.vec[self].end_ = PtrAdd(@, count), !.ret = insert_pos]

\* insert(const_iterator pos, const T& value)
insert(M, self, pos, x, failAt) == insert_fill(M, self, pos, 1, x, failAt)

\* insert(const_iterator pos, T&& value)
insert_move(M, self, pos, x, failAt) ==
    LET offset == pos.o - begin(M, self).o
        M1 == ensure_capacity(M, self, size(M, self) + 1, failAt)
        insert_pos == PtrAdd(begin(M1, self), offset)
        M2 == ShiftRight(M1, end(M1, self), insert_pos, 1)
        M3 == construct(M2, insert_pos, x)
    IN  IF M1.exc # "none" THEN M1
        ELSE [M3 EXCEPT !.vec[self].end_ = PtrAdd(@, 1), !.ret = insert_pos]

\* insert(const_iterator pos, InputIt first, InputIt last), [first, last) = w
insert_range(M, self, pos, w, failAt) ==
    LET offset == pos.o - begin(M, self).o
        count == Len(w)
        M1 == ensure_capacity(M, self, size(M, self) + count, failAt)
        insert_pos == PtrAdd(begin(M1, self), offset)
        M2 == ShiftRight(M1, end(M1, self), insert_pos, count)
        M3 == CopyLoop(M2, insert_pos, w)
    IN  IF count = 0 THEN [M EXCEPT !.ret = pos]
        ELSE IF M1.exc # "none" THEN M1
        ELSE [M3 EXCEPT !.vec[self].end_ = PtrAdd(@, count), !.ret = insert_pos]

RECURSIVE ShiftLeft(_, _, _, _)
\* for (it = erase_last; it != end(); ++it) *(it - width) = move(*it)
ShiftLeft(M, it, endp, width) ==
    IF it = endp THEN M
    ELSE ShiftLeft(move_assign(M, PtrAdd(it, -width), it), PtrAdd(it, 1), endp, width)

\* the first slot the destroy loop of erase visits
EraseDestroyFrom(erase_first, erase_last) ==
    PtrAdd(erase_last, -(erase_last.o - erase_first.o))

\* erase(const_iterator first, const_iterator last)
erase_range(M, self, first, lastp) ==
    IF first = lastp THEN [M EXCEPT !.ret = first]
    ELSE LET width == lastp.o - first.o
             M1 == ShiftLeft(M, lastp, end(M, self), width)
             M2 == DestroyRange(M1, EraseDestroyFrom(first, lastp), end(M1, self))
         IN  [M2 EXCEPT !.vec[self].end_ = PtrAdd(@, -width), !.ret = first]

\* erase(const_iterator pos)
erase(M, self, pos) == erase_range(M, self, pos, PtrAdd(pos, 1))

RECURSIVE AppendFill(_, _, _, _)
\* for (...) { construct(end_, value); ++end_; }
AppendFill(M, self, count, x) ==
    IF count = 0 THEN M ELSE AppendFill(EmplaceEnd(M, self, x), self, count - 1, x)

\* a faulty shrinking loop that retracts end_ without destroying: C14 must not
\* hold of it
PopTailKeepsObjects(M, self, count) ==
    [M EXCEPT !.vec[self].end_ = PtrAdd(@, -count)]

RECURSIVE PopTail(_, _, _)
\* for (...) { --end_; destroy(end_); }
PopTail(M, self, count) ==
    IF count = 0 THEN M
    ELSE LET M1 == [M EXCEPT !.vec[self].end_ = PtrAdd(@, -1)]
         IN  PopTail(destroy(M1, M1.vec[self].end_), self, count - 1)

resize(M, self, count, x, failAt) ==
    IF count > size(M, self)
    THEN LET M1 == ensure_capacity(M, self, count, failAt)
         IN  IF M1.exc # "none" THEN M1
             ELSE AppendFill(M1, self, count - size(M1, self), x)
    ELSE IF count < size(M, self)
    THEN PopTail(M, self, size(M, self) - count)
    ELSE M

reserve(M, self, new_cap, failAt) ==
    IF new_cap > capacity(M, self) THEN reallocate(M, self, new_cap, failAt) ELSE M

\* a faulty shrink_to_fit that treats the request as non-binding: C15 must not
\* hold of it
shrink_to_fit_noop(M, self, failAt) == M

shrink_to_fit(M, self, failAt) ==
    IF size(M, self) < capacity(M, self)
    THEN reallocate(M, self, size(M, self), failAt)
    ELSE M

\* assign(size_type count, const T& value)
assign_fill(M, self, count, x) ==
    LET M1 == clear(M, self)
    IN  IF count > 0
        THEN AppendFill(ensure_capacity(M1, self, count, 0), self, count, x)
        ELSE M1

RECURSIVE PushAll(_, _, _)
\* for (; first != last; ++first) push_back(*first)
PushAll(M, self, w) ==
    IF w = <<>> THEN M ELSE PushAll(push_back(M, self, Head(w), 0), self, Tail(w))

\* a faulty assign that keeps the previous elements: C11 must not hold of it
assign_range_appending(M, self, w) == PushAll(M, self, w)

\* assign(InputIt first, InputIt last), [first, last) = w
assign_range(M, self, w) == PushAll(clear(M, self), self, w)

\* a faulty swap that exchanges begin_ and end_ only: C16 must not hold of it
swap_forgets_end_cap(M, self, other) ==
    [M EXCEPT !.vec[self].begin_ = M.vec[other].begin_,
              !.vec[self].end_ = M.vec[other].end_,
              !.vec[other].begin_ = M.vec[self].begin_,
              !.vec[other].end_ = M.vec[self].end_]

swap(M, self, other) ==
    [M EXCEPT !.vec[self] = M.vec[other], !.vec[other] = M.vec[self]]

\* what iterating [begin(), end()) of a vector reads
Elements(M, self) ==
    [i \in 1..size(M, self) |-> Read(M, PtrAdd(begin(M, self), i - 1))]

\* ---------------------------------- vector: construction and assignment
NullVec == [begin_ |-> NULL, end_ |-> NULL, end_cap_ |-> NULL]

\* vector()
vector(M, self) == [M EXCEPT !.vec[self] = NullVec]

\* vector(size_type count, const T& value)
vector_fill(M, self, count, x) ==
    IF count > 0
    THEN LET b  == Ptr(NewBuf(M), 0)
             M1 == allocate(M, count)
             M2 == [M1 EXCEPT !.vec[self] =
                       [begin_ |-> b, end_ |-> b, end_cap_ |-> PtrAdd(b, count)]]
         IN  AppendFill(M2, self, count, x)
    ELSE [M EXCEPT !.vec[self] = NullVec]

\* vector(InputIt first, InputIt last)
vector_range(M, self, w) ==
    assign_range([M EXCEPT !.vec[self] = NullVec], self, w)

\* vector(const vector& other)
vector_copy(M, self, other) ==
    LET M0 == [M EXCEPT !.vec[self] = NullVec]
    IN  IF ~empty(M, other)
        THEN LET count == size(M, other)
                 b  == Ptr(NewBuf(M0), 0)
                 M1 == allocate(M0, count)
                 M2 == [M1 EXCEPT !.vec[self] =
                           [begin_ |-> b, end_ |-> b, end_cap_ |-> PtrAdd(b, count)]]
                 M3 == CopyLoop(M2, b, Elements(M, other))
             IN  [M3 EXCEPT !.vec[self].end_ = PtrAdd(b, count)]
        ELSE M0

\* vector(vector&& other)
vector_move(M, self, other) ==
    [M EXCEPT !.vec[self] = M.vec[other], !.vec[other] = NullVec]

\* ~vector()
vector_dtor(M, self) == deallocate_all(destroy_all(M, self), self)

\* operator=(const vector& other)
copy_assign(M, self, other) ==
    IF self # other THEN assign_range(M, self, Elements(M, other)) ELSE M

\* a faulty move assignment that drops the target's buffer without destroying or
\* freeing it: C17 must not hold of it
move_assign_vec_leaks(M, self, other) ==
    IF self # other
    THEN [M EXCEPT !.vec[self] = M.vec[other], !.vec[other] = NullVec]
    ELSE M

\* operator=(vector&& other)
move_assign_vec(M, self, other) ==
    IF self # other
    THEN LET M1 == deallocate_all(destroy_all(M, self), self)
         IN  [M1 EXCEPT !.vec[self] = M1.vec[other], !.vec[other] = NullVec]
    ELSE M

\* -------------------------------------------------- blocks of caller code
\* { vector other(w); v.swap(other); }
swap_block(M, w) ==
    vector_dtor(swap(vector_range(M, "other", w), "v", "other"), "other")

\* { vector other(w); v = other; }
copy_assign_block(M, w) ==
    vector_dtor(copy_assign(vector_range(M, "other", w), "v", "other"), "other")

\* { vector other(w); v = sugar::move(other); }
move_assign_block(M, w) ==
    vector_dtor(move_assign_vec(vector_range(M, "other", w), "v", "other"), "other")

\* { vector other(w); other = sugar::move(v); }
moved_from_block(M, w) ==
    vector_dtor(move_assign_vec(vector_range(M, "other", w), "other", "v"), "other")

\* { vector other(v); }
copy_ctor_block(M) == vector_dtor(vector_copy(M, "other", "v"), "other")

\* { vector other(sugar::move(v)); }
move_ctor_block(M) == vector_dtor(vector_move(M, "other", "v"), "other")

\* ------------------- allocator<T> and pool_allocator<T, BlockSize> in bytes
\* size_type is an unsigned integer of SizeBits bits
SizeBits == 6

SIZE_MAX == 2^SizeBits - 1

Wrap(x) == x % (SIZE_MAX + 1)

\* the template argument BlockSize, and sizeof(Block*) of Block::next
BlockSize == 16

PtrSize == 8

sizeof_Block == PtrSize + BlockSize

\* the system heap has room for MaxSys allocations at a time
MaxSys == 3

SysIds == 1..MaxSys

\* element types: sizeof(T) and alignof(T)
SHORT == [size |-> 2, align |-> 2]

INT == [size |-> 4, align |-> 4]

DOUBLE == [size |-> 8, align |-> 8]

Types == {SHORT, INT, DOUBLE}

\* the state one allocator call runs in: the system heap, the pool object, the
\* calls made to ::operator new and ::operator delete, the pointer returned
\* and the exception thrown
Mem(s, p) == [sys |-> s, pool |-> p, log |-> <<>>, ret |-> NULL, exc |-> "none"]

\* a macro that does not throw: C20 must not hold of it
SUGAR_THROW_LENGTH_ERROR_IF_disabled(A, expr) == A

\* SUGAR_THROW_LENGTH_ERROR_IF(expr, what)
SUGAR_THROW_LENGTH_ERROR_IF(A, expr) ==
    IF expr THEN [A EXCEPT !.exc = "length_error"] ELSE A

\* the address ::operator new returns: a part of the heap that is free
NewSys(A) == CHOOSE i \in SysIds :
                /\ A.sys[i] = 0
                /\ \A j \in SysIds : A.sys[j] = 0 => i <= j

\* sugar::allocate(size): ::operator new(size), which throws std::bad_alloc
\* when the heap is exhausted
sugar_allocate(A, bytes) ==
    LET A1 == [A EXCEPT !.log = Append(@, <<"operator new", bytes>>)]
    IN  IF \A i \in SysIds : A.sys[i] # 0
        THEN [A1 EXCEPT !.exc = "bad_alloc"]
        ELSE [A1 EXCEPT !.sys[NewSys(A)] = bytes, !.ret = Ptr(NewSys(A), 0)]

\* sugar::deallocate(ptr, size): ::operator delete(ptr)
sugar_deallocate(A, p) ==
    [A EXCEPT !.sys[p.b] = 0, !.log = Append(@, <<"operator delete", p.b>>)]

\* allocator<T>::max_size()
allocator_max_size(t) == SIZE_MAX \div t.size

\* allocator<T>::allocate(n)
allocator_allocate(A, t, n) ==
    IF n = 0 THEN [A EXCEPT !.ret = NULL]
    ELSE LET A1 == IF n > allocator_max_size(t)
                   THEN SUGAR_THROW_LENGTH_ERROR_IF(A, TRUE)
                   ELSE A
         IN  IF A1.exc # "none" THEN A1
             ELSE sugar_allocate(A1, Wrap(n * t.size))

\* allocator<T>::deallocate(ptr, n)
allocator_deallocate(A, p, n) ==
    IF p # NULL THEN sugar_deallocate(A, p) ELSE A

\* pool_allocator(): no block, no free node, cursor 0; lifetime is the time
\* between the constructor and the destructor
NewPool ==
    [current_block_ |-> <<>>, free_list_ |-> <<>>, block_offset_ |-> 0,
     lifetime |-> TRUE]

\* pool_allocator::allocate_block(): the block list is the sequence of the
\* blocks' addresses, current_block_ first
allocate_block(A) ==
    LET A1 == sugar_allocate(A, sizeof_Block)
    IN  IF A1.exc # "none" THEN A1
        ELSE [A1 EXCEPT !.pool.current_block_ = <<A1.ret.b>> \o @,
                        !.pool.block_offset_ = 0]

\* a max_size() counted in bytes instead of objects: C26 must not hold of it
pool_max_size_in_bytes(t) == SIZE_MAX \div (t.size * t.size)

\* pool_allocator::max_size()
pool_max_size(t) == SIZE_MAX \div t.size

\* (offset + alignment - 1) & ~(alignment - 1), alignment a power of two
AlignUp(offset, alignment) ==
    Wrap(offset + alignment - 1) - (Wrap(offset + alignment - 1) % alignment)

\* a carving that never asks whether the current block has room: C23 must
\* not hold of it
Carve_without_room_check(A, t, bytes) ==
    LET A1 == IF A.pool.current_block_ = <<>> THEN allocate_block(A) ELSE A
    IN  IF A1.exc # "none" THEN A1
        ELSE [A1 EXCEPT !.ret = Ptr(Head(A1.pool.current_block_),
                                    A1.pool.block_offset_),
                        !.pool.block_offset_ = Wrap(@ + bytes)]

\* the small-object branch of pool_allocator::allocate once the free list
\* was found empty: a new block if the current one lacks room, before and
\* after aligning, then the slot at the aligned cursor
Carve(A, t, bytes) ==
    LET A1 == IF \/ A.pool.current_block_ = <<>>
                 \/ Wrap(A.pool.block_offset_ + bytes) > BlockSize
              THEN allocate_block(A)
              ELSE A
        aligned_offset == AlignUp(A1.pool.block_offset_, t.align)
        again == Wrap(aligned_offset + bytes) > BlockSize
        A2 == IF again THEN allocate_block(A1) ELSE A1
        offset == IF again THEN 0 ELSE aligned_offset
    IN  IF A1.exc # "none" THEN A1
        ELSE IF A2.exc # "none" THEN A2
        ELSE [A2 EXCEPT !.ret = Ptr(Head(A2.pool.current_block_), offset),
                        !.pool.block_offset_ = Wrap(offset + bytes)]

\* an allocate without the threshold: every request is carved from a block.
\* C24 must not hold of it
pool_allocate_pools_everything(A, t, n) ==
    IF n = 0 THEN [A EXCEPT !.ret = NULL]
    ELSE IF n > pool_max_size(t) THEN SUGAR_THROW_LENGTH_ERROR_IF(A, TRUE)
    ELSE Carve(A, t, Wrap(n * t.size))

\* pool_allocator::allocate(n)
pool_allocate(A, t, n) ==
    IF n = 0 THEN [A EXCEPT !.ret = NULL]
    ELSE LET A1 == IF n > pool_max_size(t)
                   THEN SUGAR_THROW_LENGTH_ERROR_IF(A, TRUE)
                   ELSE A
             bytes == Wrap(n * t.size)
         IN  IF A1.exc # "none" THEN A1
             ELSE IF bytes <= BlockSize \div 4
             THEN IF A1.pool.free_list_ # <<>>
                  THEN [A1 EXCEPT !.ret = Head(A1.pool.free_list_),
                                  !.pool.free_list_ = Tail(@)]
                  ELSE Carve(A1, t, bytes)
             ELSE sugar_allocate(A1, bytes)

\* the scan of pool_allocator::deallocate: ptr lies in the data of a block
in_block(A, p) ==
    \E i \in 1..Len(A.pool.current_block_) :
        /\ A.pool.current_block_[i] = p.b
        /\ p.o >= 0
        /\ p.o < BlockSize

\* a deallocate that gives nothing back to the system: C25 must not hold of it
pool_deallocate_never_frees(A, t, p, n) == A

\* pool_allocator::deallocate(ptr, n)
pool_deallocate(A, t, p, n) ==
    IF p = NULL THEN A
    ELSE IF ~in_block(A, p) /\ Wrap(n * t.size) > BlockSize \div 4
    THEN sugar_deallocate(A, p)
    ELSE A

\* the loop of ~pool_allocator(): every block is given back, first to last
RECURSIVE FreeBlocks(_)
FreeBlocks(A) ==
    IF A.pool.current_block_ = <<>> THEN A
    ELSE FreeBlocks([sugar_deallocate(A, Ptr(Head(A.pool.current_block_), 0))
                        EXCEPT !.pool.current_block_ = Tail(@)])

\* ~pool_allocator()
pool_dtor(A) == [FreeBlocks(A) EXCEPT !.pool.lifetime = FALSE]

\* ------------------------------------------------------------- the system
Start == Machine(heap, vec)

\* vector<int, pool_allocator<int>>(): no buffer. where[b] is the address the
\* pool gave for buffer b; starved records that an allocation of this vector
\* has failed for lack of memory
NewTwin ==
    [heap |-> [b \in BufIds |-> <<>>], vec |-> [x \in Vecs |-> NullVec],
     where |-> [b \in BufIds |-> NULL], starved |-> FALSE]

\* what goes wrong in a reallocation: the allocation fails (OOM), the f-th
\* move-construction throws, or nothing (0); a call that does not reallocate
\* allocates and moves nothing
Fails(new_size) ==
    IF new_size > capacity(Start, "v") THEN (0..size(Start, "v")) \cup {OOM} ELSE {0}

\* iterators into "v": begin() + k
It(k) == PtrAdd(begin(Start, "v"), k)

\* the counts and the ranges [first, last) handed to the fill and range
\* overloads; a range of equal values behaves as the fill overload does
Counts == {0, 1, 2}
Ranges == {<<>>, <<"a">>, <<"a", "b">>}

Positions == 0..size(Start, "v")

\* a call: the operation, its arguments (iterator offsets i and j, the values
\* w, the count n, the throwing move f) and the machine it leaves
Call(op, i, j, w, n, f, M) ==
    [op |-> op, i |-> i, j |-> j, w |-> w, n |-> n, f |-> f, m |-> M]

Fill(n, x) == [k \in 1..n |-> x]

\* every failure there is, and the failures that are a throwing move
AnyFail == (0..MaxSize) \cup {OOM}
Thrown == 1..MaxSize

\* ---- every call of each operation that can be made on "v" in this state;
\* ---- a set with parameter F holds the calls whose failure is one of F
push_back_calls(F) ==
    {Call("push_back", 0, 0, <<x>>, 1, f, push_back(Start, "v", x, f)) :
        x \in Values, f \in Fails(size(Start, "v") + 1) \cap F}

\* what a read through a dangling reference can yield
Dangling == Values \cup {MOVED, GARBAGE}

\* v.push_back(v[i])
push_back_ref_calls(F) ==
    {Call("push_back", a[1], 0, <<Read(Start, It(a[1]))>>, 1, a[2],
          push_back_ref(Start, "v", It(a[1]), a[2], a[3])) :
        a \in (0..(size(Start, "v") - 1)) \X (Fails(size(Start, "v") + 1) \cap F) \X Dangling}

push_back_move_calls(F) ==
    {Call("push_back_move", 0, 0, <<x>>, 1, f, push_back_move(Start, "v", x, f)) :
        x \in Values, f \in Fails(size(Start, "v") + 1) \cap F}

\* size_type is unsigned: an index is never negative
at_calls ==
    {Call("at", pos, 0, <<>>, 0, 0, at(Start, "v", pos)) : pos \in 0..(MaxSize + 1)}

front_calls == {Call("front", 0, 0, <<>>, 0, 0, front(Start, "v"))}

back_calls == {Call("back", 0, 0, <<>>, 0, 0, back(Start, "v"))}

pop_back_calls == {Call("pop_back", 0, 0, <<>>, 0, 0, pop_back(Start, "v"))}

clear_calls == {Call("clear", 0, 0, <<>>, 0, 0, clear(Start, "v"))}

insert_calls(F) ==
    {Call("insert", k, 0, <<x>>, 1, f, insert(Start, "v", It(k), x, f)) :
        k \in Positions, x \in Values, f \in Fails(size(Start, "v") + 1) \cap F}

insert_move_calls(F) ==
    {Call("insert_move", k, 0, <<x>>, 1, f, insert_move(Start, "v", It(k), x, f)) :
        k \in Positions, x \in Values, f \in Fails(size(Start, "v") + 1) \cap F}

insert_fill_calls(F) ==
    UNION {{Call("insert_fill", k, 0, Fill(n, x), n, f,
                 insert_fill(Start, "v", It(k), n, x, f)) :
               k \in Positions, x \in Values,
               f \in Fails(size(Start, "v") + n) \cap F} :
           n \in Counts}

insert_range_calls(F) ==
    UNION {{Call("insert_range", k, 0, w, Len(w), f,
                 insert_range(Start, "v", It(k), w, f)) :
               k \in Positions, f \in Fails(size(Start, "v") + Len(w)) \cap F} :
           w \in Ranges}

erase_calls ==
    {Call("erase", k, k + 1, <<>>, 0, 0, erase(Start, "v", It(k))) :
        k \in 0..(size(Start, "v") - 1)}

erase_range_calls ==
    UNION {{Call("erase_range", i, j, <<>>, 0, 0, erase_range(Start, "v", It(i), It(j))) :
               j \in i..size(Start, "v")} :
           i \in Positions}

resize_calls(F) ==
    UNION {{Call("resize", 0, 0, <<x>>, n, f, resize(Start, "v", n, x, f)) :
               x \in Values, f \in Fails(n) \cap F} :
           n \in 0..MaxSize}

reserve_calls(F) ==
    UNION {{Call("reserve", 0, 0, <<>>, n, f, reserve(Start, "v", n, f)) :
               f \in Fails(n) \cap F} :
           n \in 0..(MaxSize + 1)}

shrink_to_fit_calls(F) ==
    {Call("shrink_to_fit", 0, 0, <<>>, 0, f, shrink_to_fit(Start, "v", f)) :
        f \in F \cap (IF size(Start, "v") < capacity(Start, "v")
                      THEN IF size(Start, "v") = 0 THEN {0}
                           ELSE (0..size(Start, "v")) \cup {OOM}
                      ELSE {0})}

assign_fill_calls ==
    {Call("assign_fill", 0, 0, Fill(n, x), n, 0, assign_fill(Start, "v", n, x)) :
        n \in Counts, x \in Values}

assign_range_calls ==
    {Call("assign_range", 0, 0, w, Len(w), 0, assign_range(Start, "v", w)) : w \in Ranges}

swap_calls == {Call("swap", 0, 0, w, 0, 0, swap_block(Start, w)) : w \in Ranges}

copy_assign_calls ==
    {Call("copy_assign", 0, 0, w, 0, 0, copy_assign_block(Start, w)) : w \in Ranges}

self_assign_calls == {Call("self_assign", 0, 0, <<>>, 0, 0, copy_assign(Start, "v", "v"))}

move_assign_calls ==
    {Call("move_assign", 0, 0, w, 0, 0, move_assign_block(Start, w)) : w \in Ranges}

moved_from_calls ==
    {Call("moved_from", 0, 0, w, 0, 0, moved_from_block(Start, w)) : w \in Ranges}

copied_from_calls == {Call("copied_from", 0, 0, <<>>, 0, 0, copy_ctor_block(Start))}

move_constructed_from_calls ==
    {Call("move_constructed_from", 0, 0, <<>>, 0, 0, move_ctor_block(Start))}

dtor_calls == {Call("~vector", 0, 0, <<>>, 0, 0, vector_dtor(Start, "v"))}

vector_calls == {Call("vector", 0, 0, <<>>, 0, 0, vector(Start, "v"))}

vector_fill_calls ==
    {Call("vector_fill", 0, 0, Fill(n, x), n, 0, vector_fill(Start, "v", n, x)) :
        n \in Counts, x \in Values}

vector_range_calls ==
    {Call("vector_range", 0, 0, w, Len(w), 0, vector_range(Start, "v", w)) : w \in Ranges}

\* the calls the model makes: those that keep "v" within MaxSize
InBounds(c) == size(c.m, "v") <= MaxSize

NoHist == [only |-> FALSE, seq |-> <<>>, grew |-> FALSE]
EmptyHist == [only |-> TRUE, seq |-> <<>>, grew |-> FALSE]

\* hist after call c
HistAfter(c) ==
    IF c.op \in {"at", "front", "back"} THEN hist
    ELSE IF c.op \in {"push_back", "push_back_move"}
    THEN IF hist.only /\ c.m.exc = "none"
         THEN [only |-> TRUE,
               seq  |-> hist.seq \o c.w,
               grew |-> hist.grew \/ capacity(c.m, "v") # capacity(Start, "v")]
         ELSE NoHist
    ELSE IF size(c.m, "v") = 0 /\ c.op # "~vector" THEN EmptyHist ELSE NoHist

Step(c) ==
    /\ InBounds(c)
    /\ heap' = c.m.heap
    /\ vec' = c.m.vec
    /\ hist' = HistAfter(c)
    /\ UNCHANGED <<avars, twin>>

Init ==
    /\ heap = [b \in BufIds |-> <<>>]
    /\ vec = [x \in Vecs |-> NullVec]
    /\ alive = TRUE
    /\ hist = EmptyHist
    /\ sys = [i \in SysIds |-> 0]
    /\ pool = NewPool
    /\ out = {}
    /\ T = INT
    /\ twin = NewTwin

\* ---- member functions called on the live vector
PushBack ==
    /\ alive
    /\ \E c \in push_back_calls(AnyFail) : Step(c)
    /\ UNCHANGED alive

PushBackMove ==
    /\ alive
    /\ \E c \in push_back_move_calls(AnyFail) : Step(c)
    /\ UNCHANGED alive

PopBack ==
    /\ alive
    /\ \E c \in pop_back_calls : Step(c)
    /\ UNCHANGED alive

Clear ==
    /\ alive
    /\ \E c \in clear_calls : Step(c)
    /\ UNCHANGED alive

Insert ==
    /\ alive
    /\ \E c \in insert_calls(AnyFail) : Step(c)
    /\ UNCHANGED alive

InsertMove ==
    /\ alive
    /\ \E c \in insert_move_calls(AnyFail) : Step(c)
    /\ UNCHANGED alive

InsertFill ==
    /\ alive
    /\ \E c \in insert_fill_calls(AnyFail) : Step(c)
    /\ UNCHANGED alive

InsertRange ==
    /\ alive
    /\ \E c \in insert_range_calls(AnyFail) : Step(c)
    /\ UNCHANGED alive

Erase ==
    /\ alive
    /\ \E c \in erase_calls : Step(c)
    /\ UNCHANGED alive

EraseRange ==
    /\ alive
    /\ \E c \in erase_range_calls : Step(c)
    /\ UNCHANGED alive

Resize ==
    /\ alive
    /\ \E c \in resize_calls(AnyFail) : Step(c)
    /\ UNCHANGED alive

Reserve ==
    /\ alive
    /\ \E c \in reserve_calls(AnyFail) : Step(c)
    /\ UNCHANGED alive

ShrinkToFit ==
    /\ alive
    /\ \E c \in shrink_to_fit_calls(AnyFail) : Step(c)
    /\ UNCHANGED alive

AssignFill ==
    /\ alive
    /\ \E c \in assign_fill_calls : Step(c)
    /\ UNCHANGED alive

AssignRange ==
    /\ alive
    /\ \E c \in assign_range_calls : Step(c)
    /\ UNCHANGED alive

Swap ==
    /\ alive
    /\ \E c \in swap_calls : Step(c)
    /\ UNCHANGED alive

CopyAssign ==
    /\ alive
    /\ \E c \in copy_assign_calls : Step(c)
    /\ UNCHANGED alive

SelfAssign ==
    /\ alive
    /\ \E c \in self_assign_calls : Step(c)
    /\ UNCHANGED alive

MoveAssign ==
    /\ alive
    /\ \E c \in move_assign_calls : Step(c)
    /\ UNCHANGED alive

MovedFrom ==
    /\ alive
    /\ \E c \in moved_from_calls : Step(c)
    /\ UNCHANGED alive

CopiedFrom ==
    /\ alive
    /\ \E c \in copied_from_calls : Step(c)
    /\ UNCHANGED alive

MoveConstructedFrom ==
    /\ alive
    /\ \E c \in move_constructed_from_calls : Step(c)
    /\ UNCHANGED alive

\* ---- element access
At ==
    /\ alive
    /\ \E c \in at_calls : Step(c)
    /\ UNCHANGED alive

Front ==
    /\ alive
    /\ \E c \in front_calls : Step(c)
    /\ UNCHANGED alive

Back ==
    /\ alive
    /\ \E c \in back_calls : Step(c)
    /\ UNCHANGED alive

\* ---- ~vector(), and the constructors run on the destroyed vector's storage
Destruct ==
    /\ alive
    /\ alive' = FALSE
    /\ \E c \in dtor_calls : Step(c)

ConstructDefault ==
    /\ ~alive
    /\ alive' = TRUE
    /\ \E c \in vector_calls : Step(c)

ConstructFill ==
    /\ ~alive
    /\ alive' = TRUE
    /\ \E c \in vector_fill_calls : Step(c)

ConstructRange ==
    /\ ~alive
    /\ alive' = TRUE
    /\ \E c \in vector_range_calls : Step(c)

Next ==
    \/ PushBack
    \/ PushBackMove
    \/ PopBack
    \/ Clear
    \/ Insert
    \/ InsertMove
    \/ InsertFill
    \/ InsertRange
    \/ Erase
    \/ EraseRange
    \/ Resize
    \/ Reserve
    \/ ShrinkToFit
    \/ AssignFill
    \/ AssignRange
    \/ Swap
    \/ CopyAssign
    \/ SelfAssign
    \/ MoveAssign
    \/ MovedFrom
    \/ CopiedFrom
    \/ MoveConstructedFrom
    \/ At
    \/ Front
    \/ Back
    \/ Destruct
    \/ ConstructDefault
    \/ ConstructFill
    \/ ConstructRange

Spec == Init /\ [][Next]_vars

\* ------------------------------------------- the two allocators on their own
AStart == Mem(sys, pool)

\* the pointer variables of the calling code: it holds at most one allocation
\* in each
Holders == {"p", "q"}

\* the element counts asked for: small ones, the ones around the pool's
\* threshold and the ones around max_size()
Requests ==
    {n \in {0, 1, 2, 3,
            (BlockSize \div 4) \div T.size, (BlockSize \div 4) \div T.size + 1,
            allocator_max_size(T), allocator_max_size(T) + 1, SIZE_MAX} :
        n <= SIZE_MAX}

Held(a, A, n) ==
    IF A.exc = "none" /\ A.ret # NULL
    THEN {[a |-> a, p |-> A.ret, n |-> n]}
    ELSE {}

AStep(A, o) ==
    /\ Cardinality(o) <= Cardinality(Holders)
    /\ sys' = A.sys
    /\ pool' = A.pool
    /\ out' = o
    /\ UNCHANGED <<heap, vec, alive, hist, T, twin>>

\* p = alloc.allocate(n)
AllocatorAllocate ==
    \E n \in Requests :
        AStep(allocator_allocate(AStart, T, n),
              out \cup Held("allocator", allocator_allocate(AStart, T, n), n))

\* alloc.deallocate(p, n) of an allocation it handed out, or of nullptr
AllocatorDeallocate ==
    \E e \in {h \in out : h.a = "allocator"} \cup {[a |-> "allocator", p |-> NULL, n |-> 0]} :
        AStep(allocator_deallocate(AStart, e.p, e.n), out \ {e})

\* p = pool.allocate(n)
PoolAllocate ==
    /\ pool.lifetime
    /\ \E n \in Requests :
          AStep(pool_allocate(AStart, T, n),
                out \cup Held("pool_allocator", pool_allocate(AStart, T, n), n))

\* pool.deallocate(p, n) of an allocation it handed out, or of nullptr
PoolDeallocate ==
    /\ pool.lifetime
    /\ \E e \in {h \in out : h.a = "pool_allocator"}
                  \cup {[a |-> "pool_allocator", p |-> NULL, n |-> 0]} :
          AStep(pool_deallocate(AStart, T, e.p, e.n), out \ {e})

\* the pool goes out of scope once everything it handed out was given back
PoolDestroy ==
    /\ pool.lifetime
    /\ \A h \in out : h.a # "pool_allocator"
    /\ AStep(pool_dtor(AStart), out)

\* a new pool in the place of the destroyed one
PoolConstruct ==
    /\ ~pool.lifetime
    /\ AStep([AStart EXCEPT !.pool = NewPool], out)

AllocInit ==
    /\ heap = [b \in BufIds |-> <<>>]
    /\ vec = [x \in Vecs |-> NullVec]
    /\ alive = TRUE
    /\ hist = EmptyHist
    /\ sys = [i \in SysIds |-> 0]
    /\ pool = NewPool
    /\ out = {}
    /\ T \in Types
    /\ twin = NewTwin

AllocNext ==
    \/ AllocatorAllocate
    \/ AllocatorDeallocate
    \/ PoolAllocate
    \/ PoolDeallocate
    \/ PoolDestroy
    \/ PoolConstruct

AllocSpec == AllocInit /\ [][AllocNext]_vars


\* ------------- vector<int> and vector<int, pool_allocator<int>> side by side
\* The vector template reaches its allocator only through allocator_traits,
\* which forwards allocate(n) and deallocate(p, n) to the allocator_ member.
\* The pool-backed vector therefore runs the same member functions on its own
\* buffers, and the allocate and deallocate calls a member function makes go,
\* in the order it makes them, to the pool. ints are moved without throwing.
TwinStart == Machine(twin.heap, twin.vec)

The(S) == CHOOSE x \in S : TRUE

\* what allocate(n) of the pool, having returned B, leaves: the buffer the
\* vector asked for is at B.ret unless allocate threw
ServedAllocate(st, ev, B) ==
    [sys |-> B.sys, pool |-> B.pool,
     where |-> IF B.exc = "none" THEN [st.where EXCEPT ![ev.b] = B.ret] ELSE st.where,
     exc |-> B.exc]

ServedDeallocate(st, ev, B) ==
    [sys |-> B.sys, pool |-> B.pool, where |-> [st.where EXCEPT ![ev.b] = NULL],
     exc |-> "none"]

\* one allocator call of the vector served by pool_allocator<int>: st holds
\* the system heap and the pool, the address of every buffer, and the
\* exception; after an exception nothing more is called
ServeOne(st, ev) ==
    IF st.exc # "none" THEN st
    ELSE IF ev.e = "allocate"
    THEN The({ServedAllocate(st, ev, B) :
                 B \in {pool_allocate(Mem(st.sys, st.pool), INT, ev.n)}})
    ELSE The({ServedDeallocate(st, ev, B) :
                 B \in {pool_deallocate(Mem(st.sys, st.pool), INT, st.where[ev.b], ev.n)}})

\* the allocator calls of a member function served in the order they are made
RECURSIVE Serve(_, _)
Serve(st, calls) ==
    IF calls = <<>> THEN st
    ELSE The({Serve(s1, Tail(calls)) : s1 \in {ServeOne(st, Head(calls))}})

\* a member function is run three times: on "v" (m), on the pool-backed
\* vector with its allocation succeeding (ok) and with allocate throwing (f).
\* "v" holds at most two buffers at a time, which a system heap of MaxSys
\* parts always has room for, so its allocations succeed
TwinRuns(f) == {<<"m", Start, 0>>, <<"ok", TwinStart, 0>>, <<"fail", TwinStart, f>>}

RunOf(R, i) == (CHOOSE r \in R : r[1] = i)[2]

\* one call made on both vectors: m is what it leaves of "v"; ok is what it
\* leaves of the pool-backed vector when its allocation succeeds, fail when
\* allocate throws, and calls are the allocate and deallocate calls it makes
Both(R) ==
    [m |-> RunOf(R, "m"), ok |-> RunOf(R, "ok"), fail |-> RunOf(R, "fail"),
     calls |-> SelectSeq(RunOf(R, "ok").log, LAMBDA ev : ev.e \in {"allocate", "deallocate"})]

\* the call on the pool-backed vector once the pool has served it as r
Served(c, r) ==
    [m |-> IF r.exc = "none" THEN c.ok ELSE [c.fail EXCEPT !.exc = r.exc],
     sys |-> r.sys, pool |-> r.pool, where |-> r.where]

\* the call on the pool-backed vector, its allocator calls served by the pool
PoolBacked(c) ==
    The({Served(c, r) :
            r \in {Serve([sys |-> sys, pool |-> pool, where |-> twin.where, exc |-> "none"],
                         c.calls)}})

\* m is what the call leaves of "v", p of the pool-backed vector
Twin(c) == [m |-> c.m, p |-> PoolBacked(c)]

\* the run ends when an allocation of the pool-backed vector fails
TwinStep(c) ==
    /\ size(c.m, "v") <= MaxSize
    /\ heap' = c.m.heap
    /\ vec' = c.m.vec
    /\ sys' = c.p.sys
    /\ pool' = c.p.pool
    /\ twin' = [heap |-> c.p.m.heap, vec |-> c.p.m.vec, where |-> c.p.where,
                starved |-> c.p.m.exc = "bad_alloc"]
    /\ UNCHANGED <<hist, out, T>>

twin_push_back_calls ==
    {Twin(c) : c \in {Both(R) : R \in {{<<a[1], push_back(a[2], "v", x, a[3])>> : a \in TwinRuns(OOM)} :
                                        x \in Values}}}

twin_pop_back_calls ==
    {Twin(c) : c \in {Both(R) : R \in {{<<a[1], pop_back(a[2], "v")>> : a \in TwinRuns(0)}}}}

twin_insert_calls ==
    {Twin(c) : c \in {Both(R) : R \in {{<<a[1], insert(a[2], "v", PtrAdd(begin(a[2], "v"), k), x, a[3])>> :
                                           a \in TwinRuns(OOM)} :
                                        k \in Positions, x \in Values}}}

twin_erase_calls ==
    {Twin(c) : c \in {Both(R) : R \in {{<<a[1], erase(a[2], "v", PtrAdd(begin(a[2], "v"), k))>> :
                                           a \in TwinRuns(0)} :
                                        k \in 0..(size(Start, "v") - 1)}}}

twin_resize_calls ==
    {Twin(c) : c \in {Both(R) : R \in {{<<a[1], resize(a[2], "v", n, x, a[3])>> : a \in TwinRuns(OOM)} :
                                        n \in 0..MaxSize, x \in Values}}}

twin_reserve_calls ==
    {Twin(c) : c \in {Both(R) : R \in {{<<a[1], reserve(a[2], "v", n, a[3])>> : a \in TwinRuns(OOM)} :
                                        n \in 0..(MaxSize + 1)}}}

twin_shrink_to_fit_calls ==
    {Twin(c) : c \in {Both(R) : R \in {{<<a[1], shrink_to_fit(a[2], "v", a[3])>> :
                                           a \in TwinRuns(IF size(TwinStart, "v") = 0 THEN 0 ELSE OOM)}}}}

twin_clear_calls ==
    {Twin(c) : c \in {Both(R) : R \in {{<<a[1], clear(a[2], "v")>> : a \in TwinRuns(0)}}}}

twin_at_calls ==
    {Twin(c) : c \in {Both(R) : R \in {{<<a[1], at(a[2], "v", pos)>> : a \in TwinRuns(0)} :
                                        pos \in 0..(MaxSize + 1)}}}

TwinCalls ==
    UNION {twin_push_back_calls, twin_pop_back_calls, twin_insert_calls,
           twin_erase_calls, twin_resize_calls, twin_reserve_calls,
           twin_shrink_to_fit_calls, twin_clear_calls, twin_at_calls}

TwinPushBack ==
    /\ alive /\ ~twin.starved
    /\ \E c \in twin_push_back_calls : TwinStep(c)
    /\ UNCHANGED alive

TwinPopBack ==
    /\ alive /\ ~twin.starved
    /\ \E c \in twin_pop_back_calls : TwinStep(c)
    /\ UNCHANGED alive

TwinInsert ==
    /\ alive /\ ~twin.starved
    /\ \E c \in twin_insert_calls : TwinStep(c)
    /\ UNCHANGED alive

TwinErase ==
    /\ alive /\ ~twin.starved
    /\ \E c \in twin_erase_calls : TwinStep(c)
    /\ UNCHANGED alive

TwinResize ==
    /\ alive /\ ~twin.starved
    /\ \E c \in twin_resize_calls : TwinStep(c)
    /\ UNCHANGED alive

TwinReserve ==
    /\ alive /\ ~twin.starved
    /\ \E c \in twin_reserve_calls : TwinStep(c)
    /\ UNCHANGED alive

TwinShrinkToFit ==
    /\ alive /\ ~twin.starved
    /\ \E c \in twin_shrink_to_fit_calls : TwinStep(c)
    /\ UNCHANGED alive

TwinClear ==
    /\ alive /\ ~twin.starved
    /\ \E c \in twin_clear_calls : TwinStep(c)
    /\ UNCHANGED alive

TwinAt ==
    /\ alive /\ ~twin.starved
    /\ \E c \in twin_at_calls : TwinStep(c)
    /\ UNCHANGED alive

\* ~vector() of the pool-backed vector, then ~pool_allocator() of its
\* allocator_ member
pool_backed_dtor(c) ==
    The({[c EXCEPT !.p.sys = A.sys, !.p.pool = A.pool] :
            A \in {pool_dtor(Mem(c.p.sys, c.p.pool))}})

twin_dtor_calls ==
    {pool_backed_dtor(Twin(c)) :
        c \in {Both(R) : R \in {{<<a[1], vector_dtor(a[2], "v")>> : a \in TwinRuns(0)}}}}

\* both vectors go out of scope
TwinDestruct ==
    /\ alive
    /\ alive' = FALSE
    /\ \E c \in twin_dtor_calls : TwinStep(c)

\* two new empty vectors in their place
TwinConstruct ==
    /\ ~alive
    /\ alive' = TRUE
    /\ \E c \in {[m |-> vector(Start, "v"),
                   p |-> [m |-> vector(TwinStart, "v"), sys |-> sys,
                          pool |-> NewPool, where |-> twin.where]]} : TwinStep(c)

TwinInit ==
    /\ heap = [b \in BufIds |-> <<>>]
    /\ vec = [x \in Vecs |-> NullVec]
    /\ alive = TRUE
    /\ hist = EmptyHist
    /\ sys = [i \in SysIds |-> 0]
    /\ pool = NewPool
    /\ out = {}
    /\ T = INT
    /\ twin = NewTwin

TwinNext ==
    \/ TwinPushBack
    \/ TwinPopBack
    \/ TwinInsert
    \/ TwinErase
    \/ TwinResize
    \/ TwinReserve
    \/ TwinShrinkToFit
    \/ TwinClear
    \/ TwinAt
    \/ TwinDestruct
    \/ TwinConstruct

TwinSpec == TwinInit /\ [][TwinNext]_vars

\* --------------------- uninitialized_copy / _fill / _fill_n (allocator.h)
\* Two buffers of RawLen slots, as the arrays ptr and dest a caller obtained
\* from an allocator; the functions construct into raw slots of them.
RawLen == 3

RawBufs == {1, 2}

RECURSIVE sugar_destroy_backwards(_, _, _)
\* a range destroy that runs from the back: C29 must not hold of it
sugar_destroy_backwards(M, first, lastp) ==
    IF first = lastp THEN M
    ELSE sugar_destroy_backwards(destroy(M, PtrAdd(lastp, -1)), first, PtrAdd(lastp, -1))

\* the free function destroy(first, last): for (; first != last; ++first)
\* destroy(first)
RECURSIVE sugar_destroy(_, _, _)
sugar_destroy(M, first, lastp) ==
    IF first = lastp THEN M ELSE sugar_destroy(destroy(M, first), PtrAdd(first, 1), lastp)

RECURSIVE CopyTry(_, _, _, _, _, _)
\* the try block of uninitialized_copy: construct(&*cur, *first) for each
\* element of [first, lastp); the failAt-th construction (counted by k) throws
\* before it touches anything
CopyTry(M, first, lastp, cur, k, failAt) ==
    IF first = lastp THEN [m |-> M, cur |-> cur, threw |-> FALSE]
    ELSE IF k = failAt THEN [m |-> M, cur |-> cur, threw |-> TRUE]
    ELSE CopyTry(construct(M, cur, Read(M, first)), PtrAdd(first, 1), lastp,
                 PtrAdd(cur, 1), k + 1, failAt)

\* catch (...) { destroy(result, cur); throw; }  and  return cur;
uninitialized_copy(M, first, lastp, result, failAt) ==
    The({IF r.threw
         THEN [sugar_destroy(r.m, result, r.cur) EXCEPT !.exc = "element"]
         ELSE [r.m EXCEPT !.ret = r.cur] :
            r \in {CopyTry(M, first, lastp, result, 1, failAt)}})

RECURSIVE FillTry(_, _, _, _, _, _)
\* the try block of uninitialized_fill: for (; cur != last; ++cur)
\* construct(&*cur, value)
FillTry(M, cur, lastp, x, k, failAt) ==
    IF cur = lastp THEN [m |-> M, cur |-> cur, threw |-> FALSE]
    ELSE IF k = failAt THEN [m |-> M, cur |-> cur, threw |-> TRUE]
    ELSE FillTry(construct(M, cur, x), PtrAdd(cur, 1), lastp, x, k + 1, failAt)

uninitialized_fill(M, first, lastp, x, failAt) ==
    The({IF r.threw
         THEN [sugar_destroy(r.m, first, r.cur) EXCEPT !.exc = "element"]
         ELSE [r.m EXCEPT !.ret = r.cur] :
            r \in {FillTry(M, first, lastp, x, 1, failAt)}})

RECURSIVE FillNTry(_, _, _, _, _, _)
\* the try block of uninitialized_fill_n: for (; n > 0; --n, ++cur)
\* construct(&*cur, value)
FillNTry(M, cur, n, x, k, failAt) ==
    IF ~(n > 0) THEN [m |-> M, cur |-> cur, threw |-> FALSE]
    ELSE IF k = failAt THEN [m |-> M, cur |-> cur, threw |-> TRUE]
    ELSE FillNTry(construct(M, cur, x), PtrAdd(cur, 1), n - 1, x, k + 1, failAt)

uninitialized_fill_n(M, first, n, x, failAt) ==
    The({IF r.threw
         THEN [sugar_destroy(r.m, first, r.cur) EXCEPT !.exc = "element"]
         ELSE [r.m EXCEPT !.ret = r.cur] :
            r \in {FillNTry(M, first, n, x, 1, failAt)}})

\* the ranges [p, p + n) of the two buffers whose slots are all raw, and those
\* whose slots all hold an object
RawRuns ==
    {r \in {[p |-> Ptr(b, o), n |-> n] : b \in RawBufs, o \in 0..RawLen, n \in 0..RawLen} :
        /\ r.p.o + r.n <= RawLen
        /\ \A i \in 0..(r.n - 1) : Slot(Start, PtrAdd(r.p, i)) = RAW}

LiveRuns ==
    {r \in {[p |-> Ptr(b, o), n |-> n] : b \in RawBufs, o \in 0..RawLen, n \in 0..RawLen} :
        /\ r.p.o + r.n <= RawLen
        /\ \A i \in 0..(r.n - 1) : Slot(Start, PtrAdd(r.p, i)) # RAW}

\* one call: fn into [d, d + n), the values w to be stored, f the
\* construction that throws (0: none), m what the call leaves
RawCall(fn, d, w, f, M) == [fn |-> fn, d |-> d, n |-> Len(w), w |-> w, f |-> f, m |-> M]

uninitialized_copy_calls ==
    {RawCall("uninitialized_copy", a[2].p,
             [i \in 1..a[1].n |-> Read(Start, PtrAdd(a[1].p, i - 1))], a[3],
             uninitialized_copy(Start, a[1].p, PtrAdd(a[1].p, a[1].n), a[2].p, a[3])) :
        a \in {a \in LiveRuns \X RawRuns \X (0..RawLen) :
                  a[1].n = a[2].n /\ a[3] <= a[1].n}}

uninitialized_fill_calls ==
    {RawCall("uninitialized_fill", a[1].p, Fill(a[1].n, a[2]), a[3],
             uninitialized_fill(Start, a[1].p, PtrAdd(a[1].p, a[1].n), a[2], a[3])) :
        a \in {a \in RawRuns \X Values \X (0..RawLen) : a[3] <= a[1].n}}

uninitialized_fill_n_calls ==
    {RawCall("uninitialized_fill_n", a[1].p, Fill(a[1].n, a[2]), a[3],
             uninitialized_fill_n(Start, a[1].p, a[1].n, a[2], a[3])) :
        a \in {a \in RawRuns \X Values \X (0..RawLen) : a[3] <= a[1].n}}

RawCalls ==
    UNION {uninitialized_copy_calls, uninitialized_fill_calls, uninitialized_fill_n_calls}

RawStep(c) ==
    /\ heap' = c.m.heap
    /\ UNCHANGED <<vec, alive, hist, avars, twin>>

UninitializedCopy == \E c \in uninitialized_copy_calls : RawStep(c)

UninitializedFill == \E c \in uninitialized_fill_calls : RawStep(c)

UninitializedFillN == \E c \in uninitialized_fill_n_calls : RawStep(c)

\* destroy(first, last) of a range of objects, as the caller's cleanup
DestroyObjects ==
    \E r \in LiveRuns : \E c \in {[m |-> sugar_destroy(Start, r.p, PtrAdd(r.p, r.n))]} : RawStep(c)

RawInit ==
    /\ heap = [b \in BufIds |-> IF b \in RawBufs THEN [i \in 1..RawLen |-> RAW] ELSE <<>>]
    /\ vec = [x \in Vecs |-> NullVec]
    /\ alive = TRUE
    /\ hist = EmptyHist
    /\ sys = [i \in SysIds |-> 0]
    /\ pool = NewPool
    /\ out = {}
    /\ T = INT
    /\ twin = NewTwin

RawNext ==
    \/ UninitializedCopy
    \/ UninitializedFill
    \/ UninitializedFillN
    \/ DestroyObjects

RawSpec == RawInit /\ [][RawNext]_vars

\* ---------------------------------------------------- what the claims read
MemberCalls ==
    UNION {push_back_calls(AnyFail), push_back_move_calls(AnyFail), pop_back_calls, clear_calls,
           insert_calls(AnyFail), insert_move_calls(AnyFail), insert_fill_calls(AnyFail), insert_range_calls(AnyFail),
           erase_calls, erase_range_calls, resize_calls(AnyFail), reserve_calls(AnyFail),
           shrink_to_fit_calls(AnyFail), assign_fill_calls, assign_range_calls, swap_calls,
           copy_assign_calls, self_assign_calls, move_assign_calls,
           moved_from_calls, copied_from_calls, move_constructed_from_calls,
           at_calls, front_calls, back_calls}

\* every call that can be made on "v" in the current state
Calls ==
    IF alive THEN MemberCalls \cup dtor_calls
    ELSE UNION {vector_calls, vector_fill_calls, vector_range_calls}

\* every slot of [begin_, end_) holds a live object
LiveRange(M, self) ==
    \A i \in 0..(size(M, self) - 1) : Slot(M, PtrAdd(begin(M, self), i)) # RAW

\* every slot of [end_, end_cap_) is raw
RawTail(M, self) ==
    \A i \in size(M, self)..(capacity(M, self) - 1) :
        Slot(M, PtrAdd(begin(M, self), i)) = RAW

\* the number of live objects in the heap
LiveCount(M) ==
    Cardinality({p \in BufIds \X (1..(2 * MaxSize + 2)) :
                    /\ p[2] <= Len(M.heap[p[1]])
                    /\ M.heap[p[1]][p[2]] # RAW})

\* s[i..j) of a sequence s, offsets counted from 0
Slice(s, i, j) == [n \in 1..(j - i) |-> s[i + n]]

\* ================================================================== claims

\* C1: after any sequence of public operations every slot of [first, last)
\* holds a live constructed object and every slot of [last, cap_end) is raw.
C1_LiveThenRaw == LiveRange(Start, "v") /\ RawTail(Start, "v")

\* C2: the vector calls construct only on a slot that holds no live object and
\* destroy only on a slot that holds one; the live objects are exactly the
\* size() elements of the vector (none once it is destroyed).
C2_ConstructRawDestroyLive ==
    /\ \A c \in Calls : \A n \in DOMAIN c.m.log :
          /\ c.m.log[n].e = "construct" => ~c.m.log[n].live
          /\ c.m.log[n].e = "destroy" => c.m.log[n].live
    /\ LiveCount(Start) = size(Start, "v")

\* C3: first <= last <= cap_end, and the three pointers are all null or all
\* point into the one allocated buffer the vector owns, first at its start and
\* cap_end at its end.
C3_PointersOrderedInOwnedBuffer ==
    \/ vec["v"] = NullVec
    \/ /\ vec["v"].begin_.b \in BufIds
       /\ vec["v"].end_.b = vec["v"].begin_.b
       /\ vec["v"].end_cap_.b = vec["v"].begin_.b
       /\ heap[vec["v"].begin_.b] # <<>>
       /\ vec["v"].begin_.o = 0
       /\ vec["v"].begin_.o <= vec["v"].end_.o
       /\ vec["v"].end_.o <= vec["v"].end_cap_.o
       /\ vec["v"].end_cap_.o = Len(heap[vec["v"].begin_.b])
       /\ 0 <= size(Start, "v")
       /\ size(Start, "v") <= capacity(Start, "v")

C3_Witness ==
    /\ alive
    /\ vec["v"] # NullVec
    /\ 0 < size(Start, "v")
    /\ size(Start, "v") < capacity(Start, "v")

\* the calls that can reallocate while the vector holds elements
GrowthCalls(F) ==
    UNION {push_back_calls(F), push_back_move_calls(F),
           insert_calls(F), insert_move_calls(F),
           insert_fill_calls(F), insert_range_calls(F),
           resize_calls(F), reserve_calls(F),
           shrink_to_fit_calls(F)}

\* the allocator calls of a reallocation into buffer nb of new_capacity slots
\* whose N-th move-construction throws
RollbackLog(nb, new_capacity, N) ==
    <<Event("allocate", Ptr(nb, 0), new_capacity, FALSE)>>
    \o [i \in 1..(N - 1) |-> Event("construct", Ptr(nb, i - 1), 1, FALSE)]
    \o [i \in 1..(N - 1) |-> Event("destroy", Ptr(nb, i - 1), 1, TRUE)]
    \o <<Event("deallocate", Ptr(nb, 0), new_capacity, TRUE)>>

\* C4: when the N-th move-construction of a forced reallocation throws, the
\* N-1 elements constructed in the new buffer are destroyed front to back, the
\* new buffer is deallocated once, the failure reaches the caller, and
\* begin_/end_/end_cap_, size() and capacity() are as before the call.
C4_FailedGrowthRollsBack ==
    \A c \in GrowthCalls(Thrown) : c.f > 0 =>
        /\ c.m.exc = "element"
        /\ c.m.log # <<>>
        /\ c.m.log = RollbackLog(NewBuf(Start), c.m.log[1].n, c.f)
        /\ c.m.heap[NewBuf(Start)] = <<>>
        /\ c.m.vec["v"] = vec["v"]
        /\ size(c.m, "v") = size(Start, "v")
        /\ capacity(c.m, "v") = capacity(Start, "v")

C4_Witness ==
    \E c \in push_back_calls(AnyFail) :
        /\ c.f = 3
        /\ c.m.exc = "element"
        /\ Len(c.m.log) = 6
        /\ \E i \in 0..(size(Start, "v") - 1) : Slot(Start, It(i)) = MOVED

\* C5: after a growth that fails at the N-th move-construction the vector
\* holds the same element values at the same indices as before the call.
C5_OldBufferIntact ==
    \A c \in GrowthCalls(Thrown) : c.f > 0 =>
        /\ size(c.m, "v") = size(Start, "v")
        /\ Elements(c.m, "v") = Elements(Start, "v")

\* C6: from an empty vector, after a sequence of push_back calls with at least
\* one reallocation, size() is the number of pushes and index i reads the i-th
\* pushed value.
C6_PushedValuesReadBack ==
    (alive /\ hist.only /\ hist.grew) =>
        /\ size(Start, "v") = Len(hist.seq)
        /\ LiveRange(Start, "v")
        /\ Elements(Start, "v") = hist.seq

C6_Witness ==
    /\ alive
    /\ hist.only
    /\ hist.grew
    /\ Len(hist.seq) = MaxSize
    /\ \E i \in 1..MaxSize : hist.seq[i] # hist.seq[1]

\* the calls of C7's first sentence
GrowOnlyOps ==
    {"push_back", "push_back_move", "pop_back", "insert", "insert_move",
     "insert_fill", "insert_range", "erase", "erase_range", "resize", "clear",
     "assign_fill", "assign_range", "reserve"}

\* C7 as stated: over push_back, pop_back, insert, erase, resize, clear, assign
\* and reserve capacity() never decreases and size() <= capacity() after every
\* step; capacity decreases only through shrink_to_fit, swap, being moved from
\* or destruction.
C7_CapacityDecreasesOnlyAsListed ==
    \A c \in Calls :
        /\ c.op \in GrowOnlyOps =>
              /\ capacity(c.m, "v") >= capacity(Start, "v")
              /\ size(c.m, "v") <= capacity(c.m, "v")
        /\ capacity(c.m, "v") < capacity(Start, "v") =>
              c.op \in {"shrink_to_fit", "swap", "moved_from",
                        "move_constructed_from", "~vector"}

\* C7 amended: as above, and capacity may also decrease when the vector is the
\* target of a move assignment, which adopts the source's buffer.
C7_CapacityDecreasesAlsoByMoveAssign ==
    \A c \in Calls :
        /\ c.op \in GrowOnlyOps =>
              /\ capacity(c.m, "v") >= capacity(Start, "v")
              /\ size(c.m, "v") <= capacity(c.m, "v")
        /\ capacity(c.m, "v") < capacity(Start, "v") =>
              c.op \in {"shrink_to_fit", "swap", "moved_from",
                        "move_constructed_from", "~vector", "move_assign"}

C7_Witness ==
    /\ \E c \in move_assign_calls :
          /\ 0 < capacity(c.m, "v")
          /\ capacity(c.m, "v") < capacity(Start, "v")
    /\ \E c \in push_back_calls(AnyFail) : capacity(c.m, "v") > capacity(Start, "v")
    /\ \E c \in clear_calls :
          /\ size(c.m, "v") < size(Start, "v")
          /\ capacity(c.m, "v") = capacity(Start, "v")

\* the insert overloads
InsertCalls ==
    UNION {insert_calls(AnyFail), insert_move_calls(AnyFail), insert_fill_calls(AnyFail), insert_range_calls(AnyFail)}

\* C8: for contents s, offset k in [0, size()] and inserted values w, |w| >= 1,
\* insert at begin() + k leaves s[0..k) ++ w ++ s[k..size), increases size() by
\* |w| and returns the iterator at offset k of the buffer, which refers to the
\* first inserted element.
C8_InsertSplices ==
    (LiveRange(Start, "v") /\ RawTail(Start, "v")) =>
        \A c \in InsertCalls : (c.w # <<>> /\ c.m.exc = "none") =>
            LET s == Elements(Start, "v")
            IN  /\ size(c.m, "v") = Len(s) + Len(c.w)
                /\ LiveRange(c.m, "v")
                /\ Elements(c.m, "v") =
                       Slice(s, 0, c.i) \o c.w \o Slice(s, c.i, Len(s))
                /\ c.m.ret = PtrAdd(begin(c.m, "v"), c.i)
                /\ Read(c.m, c.m.ret) = c.w[1]

\* C9: for contents s and offsets 0 <= i <= j <= size(), erase(begin() + i,
\* begin() + j) leaves s[0..i) ++ s[j..size), reduces size() by j - i, keeps
\* capacity(), and returns the iterator at offset i; when i = j nothing changes.
C9_EraseCloses ==
    (LiveRange(Start, "v") /\ RawTail(Start, "v")) =>
        \A c \in erase_range_calls \cup erase_calls :
            LET s == Elements(Start, "v")
            IN  /\ size(c.m, "v") = Len(s) - (c.j - c.i)
                /\ LiveRange(c.m, "v")
                /\ Elements(c.m, "v") = Slice(s, 0, c.i) \o Slice(s, c.j, Len(s))
                /\ capacity(c.m, "v") = capacity(Start, "v")
                /\ c.m.ret = PtrAdd(begin(c.m, "v"), c.i)
                /\ c.i = c.j => (c.m.heap = heap /\ c.m.vec = vec)

\* C10: when size() < capacity(), for any pos in [begin(), end()] and value x,
\* erase(insert(pos, x)) restores the element sequence, size() and capacity().
C10_EraseUndoesInsert ==
    (LiveRange(Start, "v") /\ RawTail(Start, "v")
        /\ size(Start, "v") < capacity(Start, "v")) =>
        \A c \in insert_calls(AnyFail) :
            LET M2 == erase(c.m, "v", c.m.ret)
            IN  /\ size(M2, "v") = size(Start, "v")
                /\ capacity(M2, "v") = capacity(Start, "v")
                /\ LiveRange(M2, "v")
                /\ Elements(M2, "v") = Elements(Start, "v")

\* C11: for any prior contents and any range [first, last) not drawn from the
\* vector, after assign(first, last) the vector reads exactly the elements of
\* the range in order, size() is its length, and no previous element remains.
C11_AssignRangeReplaces ==
    \A c \in assign_range_calls :
        /\ c.m.exc = "none"
        /\ size(c.m, "v") = Len(c.w)
        /\ LiveRange(c.m, "v")
        /\ Elements(c.m, "v") = c.w
        /\ RawTail(c.m, "v")
        /\ LiveCount(c.m) = Len(c.w)

C11_Witness ==
    \E c \in assign_range_calls :
        /\ size(Start, "v") = MaxSize
        /\ LiveRange(Start, "v")
        /\ Len(c.w) = 2
        /\ \A i \in 1..2 : Elements(Start, "v")[i] # c.w[i]
        /\ Elements(c.m, "v") = c.w

\* C12: at(i) returns the element at index i when i < size() and raises the
\* out-of-bounds error when i >= size(); either way size, capacity and
\* contents are unchanged.
C12_AtChecksBounds ==
    \A c \in at_calls :
        /\ c.i < size(Start, "v") =>
              /\ c.m.exc = "none"
              /\ c.m.ret = It(c.i)
              /\ Read(c.m, c.m.ret) = Elements(Start, "v")[c.i + 1]
        /\ c.i >= size(Start, "v") => c.m.exc = "out_of_range"
        /\ c.m.heap = heap
        /\ c.m.vec = vec

C12_Witness ==
    /\ size(Start, "v") = 2
    /\ LiveRange(Start, "v")
    /\ Elements(Start, "v")[1] # Elements(Start, "v")[2]
    /\ \E c \in at_calls : c.i = size(Start, "v") /\ c.m.exc = "out_of_range"
    /\ \E c \in at_calls :
          /\ c.i = size(Start, "v") - 1
          /\ c.m.exc = "none"
          /\ Read(c.m, c.m.ret) = Elements(Start, "v")[2]

\* C13: front() and back() on an empty vector raise the empty-container error,
\* which differs from the error at() raises for a bad index and from an
\* allocation failure; on a non-empty vector they return the first and the
\* last element.
C13_EmptyAccessHasItsOwnError ==
    \A c \in front_calls \cup back_calls :
        IF empty(Start, "v")
        THEN /\ c.m.exc = "container_empty_error"
             /\ \A a \in at_calls : a.m.exc # "none" => a.m.exc # c.m.exc
        ELSE /\ c.m.exc = "none"
             /\ c.op = "front" => c.m.ret = It(0)
             /\ c.op = "back" => c.m.ret = It(size(Start, "v") - 1)

\* C14: resize(count, value) sets size() to count and keeps the first
\* min(count, old size) elements; growing appends count - old size copies of
\* value; shrinking destroys exactly the old size - count tail elements and
\* leaves capacity() unchanged.
C14_ResizeKeepsPrefix ==
    \A c \in resize_calls(AnyFail) : c.m.exc = "none" =>
        LET s    == Elements(Start, "v")
            t    == Elements(c.m, "v")
            old  == Len(s)
            keep == IF c.n < old THEN c.n ELSE old
        IN  /\ size(c.m, "v") = c.n
            /\ Slice(t, 0, keep) = Slice(s, 0, keep)
            /\ c.n > old =>
                  /\ Slice(t, old, c.n) = Fill(c.n - old, c.w[1])
                  /\ \A i \in old..(c.n - 1) :
                        Slot(c.m, PtrAdd(begin(c.m, "v"), i)) # RAW
            /\ c.n < old =>
                  /\ capacity(c.m, "v") = capacity(Start, "v")
                  /\ c.m.vec["v"].begin_ = vec["v"].begin_
                  /\ Len(c.m.log) = old - c.n
                  /\ \A k \in 1..(old - c.n) :
                        /\ c.m.log[k].e = "destroy"
                        /\ c.m.log[k].b = vec["v"].begin_.b
                        /\ c.m.log[k].o = old - k
                        /\ LiveRange(Start, "v") => c.m.log[k].live
            /\ c.n = old => (c.m.heap = heap /\ c.m.vec = vec)

C14_Witness ==
    /\ size(Start, "v") = 2
    /\ capacity(Start, "v") = 2
    /\ LiveRange(Start, "v")
    /\ \E c \in resize_calls(AnyFail) :
          /\ c.n = 3
          /\ c.m.exc = "none"
          /\ c.w[1] # Elements(Start, "v")[2]
          /\ Elements(c.m, "v") = Elements(Start, "v") \o c.w
    /\ \E c \in resize_calls(AnyFail) : c.n = 0 /\ Len(c.m.log) = 2

\* C15: reserve(n) and shrink_to_fit() change neither size() nor the element
\* sequence and never leave capacity() below size(); after reserve(n)
\* capacity() >= n, unchanged when n <= old capacity; after shrink_to_fit()
\* capacity() = size(), with the buffer freed and the three pointers null when
\* size() = 0.
C15_ReserveShrinkKeepContents ==
    \A c \in reserve_calls(AnyFail) \cup shrink_to_fit_calls(AnyFail) : c.m.exc = "none" =>
        /\ size(c.m, "v") = size(Start, "v")
        /\ Elements(c.m, "v") = Elements(Start, "v")
        /\ LiveRange(Start, "v") => LiveRange(c.m, "v")
        /\ capacity(c.m, "v") >= size(c.m, "v")
        /\ c.op = "reserve" =>
              /\ capacity(c.m, "v") >= c.n
              /\ c.n <= capacity(Start, "v") => (c.m.heap = heap /\ c.m.vec = vec)
        /\ c.op = "shrink_to_fit" =>
              /\ capacity(c.m, "v") = size(c.m, "v")
              /\ size(Start, "v") = 0 =>
                    /\ c.m.vec["v"] = NullVec
                    /\ \A b \in BufIds : c.m.heap[b] = <<>>

C15_Witness ==
    /\ size(Start, "v") = 2
    /\ capacity(Start, "v") = 3
    /\ LiveRange(Start, "v")
    /\ Elements(Start, "v")[1] # Elements(Start, "v")[2]
    /\ \E c \in shrink_to_fit_calls(AnyFail) :
          /\ c.m.exc = "none"
          /\ capacity(c.m, "v") = 2
          /\ c.m.vec["v"].begin_ # vec["v"].begin_
    /\ \E c \in reserve_calls(AnyFail) :
          /\ c.m.exc = "none"
          /\ c.n = MaxSize + 1
          /\ capacity(c.m, "v") = c.n

\* C16: a.swap(b) exchanges the two vectors' begin_/end_/end_cap_, so each has
\* the other's former size, capacity and element sequence; no element is
\* constructed, destroyed, moved or copied and no memory is allocated or freed.
C16_SwapExchangesPointersOnly ==
    \A w \in Ranges :
        LET M0 == vector_range(Start, "other", w)
            M1 == swap(M0, "v", "other")
        IN  /\ M1.vec["v"] = M0.vec["other"]
            /\ M1.vec["other"] = M0.vec["v"]
            /\ size(M1, "v") = size(M0, "other")
            /\ size(M1, "other") = size(M0, "v")
            /\ capacity(M1, "v") = capacity(M0, "other")
            /\ capacity(M1, "other") = capacity(M0, "v")
            /\ Elements(M1, "v") = Elements(M0, "other")
            /\ Elements(M1, "other") = Elements(M0, "v")
            /\ M1.heap = M0.heap
            /\ M1.log = M0.log

C16_Witness ==
    /\ size(Start, "v") = 3
    /\ capacity(Start, "v") = 4
    /\ LiveRange(Start, "v")
    /\ \E c \in swap_calls :
          /\ Len(c.w) = 2
          /\ Elements(c.m, "v") = c.w
          /\ capacity(c.m, "v") = 2

\* the allocator calls that destroy the elements of vector self of M front to
\* back and free its buffer
ReleaseLog(M, self) ==
    IF M.vec[self].begin_ = NULL THEN <<>>
    ELSE [k \in 1..size(M, self) |->
             Event("destroy", PtrAdd(begin(M, self), k - 1), 1,
                   Slot(M, PtrAdd(begin(M, self), k - 1)) # RAW)]
         \o <<Event("deallocate", begin(M, self), capacity(M, self), TRUE)>>

\* the machine M at the start of a call
BeforeCall(M) == [M EXCEPT !.log = <<>>]

\* the slots of the buffer vector self of M owns
BufferOf(M, self) ==
    IF M.vec[self].begin_ = NULL THEN <<>> ELSE M.heap[M.vec[self].begin_.b]

\* C17: move construction and move assignment hand the source's buffer to the
\* target without constructing, destroying or relocating any source element:
\* the target has the source's former size, capacity and contents, the source
\* is empty with capacity 0; move assignment first destroys the target's
\* previous elements and frees its previous buffer exactly once.
C17_MoveTransfersBuffer ==
    /\ LET M1 == vector_move(Start, "other", "v")
       IN  /\ M1.vec["other"] = vec["v"]
           /\ M1.vec["v"] = NullVec
           /\ size(M1, "v") = 0
           /\ capacity(M1, "v") = 0
           /\ Elements(M1, "other") = Elements(Start, "v")
           /\ M1.heap = heap
           /\ M1.log = <<>>
    /\ \A w \in Ranges :
          LET M0 == BeforeCall(vector_range(Start, "other", w))
              M1 == move_assign_vec(M0, "v", "other")
              M2 == move_assign_vec(M0, "other", "v")
          IN  /\ M1.vec["v"] = M0.vec["other"]
              /\ M1.vec["other"] = NullVec
              /\ size(M1, "v") = Len(w)
              /\ capacity(M1, "v") = capacity(M0, "other")
              /\ LiveRange(M1, "v")
              /\ Elements(M1, "v") = w
              /\ BufferOf(M1, "v") = BufferOf(M0, "other")
              /\ M1.log = ReleaseLog(M0, "v")
              /\ M2.vec["other"] = M0.vec["v"]
              /\ M2.vec["v"] = NullVec
              /\ Elements(M2, "other") = Elements(M0, "v")
              /\ BufferOf(M2, "other") = BufferOf(M0, "v")
              /\ M2.log = ReleaseLog(M0, "other")

C17_Witness ==
    /\ size(Start, "v") = 2
    /\ capacity(Start, "v") = 3
    /\ LiveRange(Start, "v")
    /\ \E c \in move_assign_calls :
          /\ Len(c.w) = 2
          /\ Elements(c.m, "v") = c.w
          /\ Elements(c.m, "v") # Elements(Start, "v")
          /\ capacity(c.m, "v") = 2
    /\ \E c \in move_constructed_from_calls : c.m.vec["v"] = NullVec

\* the number of slots buffer b holds just before the k-th allocator call of
\* log, the buffers being as in the current state before the first; 0 when the
\* buffer is not allocated
AllocatedCount(log, k, b) ==
    LET earlier == {j \in 1..(k - 1) :
                       log[j].b = b /\ log[j].e \in {"allocate", "deallocate"}}
    IN  IF earlier = {} THEN Len(heap[b])
        ELSE LET j == CHOOSE i \in earlier : \A n \in earlier : n <= i
             IN  IF log[j].e = "allocate" THEN log[j].n ELSE 0

C19_OutOfMemoryLeavesVectorAlone ==
    \A c \in GrowthCalls({OOM}) : c.f = OOM =>
        /\ c.m.exc = "bad_alloc"
        /\ Len(c.m.log) = 1
        /\ c.m.log[1].e = "operator new"
        /\ c.m.heap = heap
        /\ c.m.vec = vec
        /\ size(c.m, "v") = size(Start, "v")
        /\ capacity(c.m, "v") = capacity(Start, "v")
        /\ Elements(c.m, "v") = Elements(Start, "v")

C19_Witness ==
    /\ size(Start, "v") = 2
    /\ capacity(Start, "v") = 2
    /\ LiveRange(Start, "v")
    /\ \A op \in {"push_back", "insert", "insert_fill", "insert_range",
                  "reserve", "resize"} :
          \E c \in GrowthCalls(AnyFail) :
              /\ c.op = op
              /\ c.f = OOM
              /\ c.m.exc = "bad_alloc"
              /\ c.m.log[1].n >= 3

\* C20: for allocator<T> and for pool_allocator<T, BlockSize>, allocate(n)
\* with n > max_size() throws std::length_error without a call to
\* ::operator new, and the system heap and the pool object (block list, free
\* list, cursor) are as before the call.
C20_TooLargeThrowsBeforeAllocating ==
    /\ \A n \in 0..SIZE_MAX : n > allocator_max_size(T) =>
          LET A == allocator_allocate(AStart, T, n)
          IN  /\ A.exc = "length_error"
              /\ A.log = <<>>
              /\ A.ret = NULL
              /\ A.sys = sys
              /\ A.pool = pool
    /\ pool.lifetime =>
          \A n \in 0..SIZE_MAX : n > pool_max_size(T) =>
              LET A == pool_allocate(AStart, T, n)
              IN  /\ A.exc = "length_error"
                  /\ A.log = <<>>
                  /\ A.ret = NULL
                  /\ A.sys = sys
                  /\ A.pool = pool

C20_Witness ==
    /\ pool.lifetime
    /\ pool.current_block_ # <<>>
    /\ pool.block_offset_ > 0
    /\ \E h \in out : h.a = "allocator"
    /\ \E n \in Requests :
          /\ n > allocator_max_size(T)
          /\ n > pool_max_size(T)
          /\ allocator_allocate(AStart, T, n).exc = "length_error"
          /\ pool_allocate(AStart, T, n).exc = "length_error"

\* ------------------------------------------------ what the pool claims read
\* the allocations the pool handed out that lie in the data of one of its blocks
PooledOut == {h \in out : h.a = "pool_allocator" /\ in_block(AStart, h.p)}

\* the counts n with n * sizeof(T) at most the pool's threshold
SmallCounts == {n \in 1..pool_max_size(T) : Wrap(n * T.size) <= BlockSize \div 4}

\* C21: pool deallocate(ptr, n) of a pointer inside a block makes no call to
\* ::operator delete and pushes the slot onto the free list, and the next
\* small allocate returns that slot, popping it, without carving from a block.
C21_DeallocatePushesAllocatePops ==
    pool.lifetime =>
        \A h \in PooledOut :
            LET A == pool_deallocate(AStart, T, h.p, h.n)
                B == pool_allocate(Mem(A.sys, A.pool), T, h.n)
            IN  /\ A.log = <<>>
                /\ A.sys = sys
                /\ A.pool.free_list_ = <<h.p>> \o pool.free_list_
                /\ B.ret = h.p
                /\ B.pool.free_list_ = pool.free_list_
                /\ B.pool.block_offset_ = pool.block_offset_

\* p = pool.allocate(n); pool.deallocate(p, n); run N times, or until a call
\* throws
RECURSIVE RoundTrips(_, _, _, _)
RoundTrips(A, t, n, N) ==
    IF N = 0 THEN A
    ELSE LET B == pool_allocate(Mem(A.sys, A.pool), t, n)
         IN  IF B.exc # "none" THEN B
             ELSE RoundTrips(pool_deallocate(B, t, B.ret, n), t, n, N - 1)

\* more round trips than a block has bytes
MaxTrips == BlockSize + 1

\* C22: allocating a small object from the pool and giving it back at once,
\* N times over, makes the pool allocate no more blocks than the first of the
\* N round trips does, whatever N is, and no round trip fails for lack of
\* memory.
C22_RoundTripsNeedNoMoreBlocks ==
    pool.lifetime =>
        \A n \in SmallCounts : \A N \in 1..MaxTrips :
            /\ RoundTrips(AStart, T, n, N).exc = RoundTrips(AStart, T, n, 1).exc
            /\ Len(RoundTrips(AStart, T, n, N).pool.current_block_)
                   = Len(RoundTrips(AStart, T, n, 1).pool.current_block_)

\* the bytes [p.o, p.o + n * sizeof(T)) of an allocation lie in the data of
\* its block, at an aligned offset
WellPlaced(A, p, n) ==
    /\ in_block(A, p)
    /\ p.o % T.align = 0
    /\ p.o + n * T.size <= BlockSize

\* two allocations share a byte
Overlap(p, n, q, m) ==
    /\ p.b = q.b
    /\ p.o < q.o + m * T.size
    /\ q.o < p.o + n * T.size

\* C23: in every state of the pool the cursor is at most BlockSize, every
\* outstanding small allocation lies wholly in the data area of one block at an
\* offset that is a multiple of alignof(T), no two outstanding allocations
\* overlap, and the slot a small allocate hands out next is placed the same
\* way and overlaps no outstanding allocation.
C23_SmallAllocationsWellPlacedAndDisjoint ==
    pool.lifetime =>
        /\ pool.block_offset_ <= BlockSize
        /\ \A h \in out : h.a = "pool_allocator" /\ h.n \in SmallCounts =>
              WellPlaced(AStart, h.p, h.n)
        /\ \A h \in PooledOut : \A g \in PooledOut :
              h # g => ~Overlap(h.p, h.n, g.p, g.n)
        /\ \A n \in SmallCounts :
              LET A == pool_allocate(AStart, T, n)
              IN  A.exc = "none" =>
                      /\ WellPlaced(A, A.ret, n)
                      /\ A.pool.block_offset_ <= BlockSize
                      /\ A.pool.block_offset_ = A.ret.o + n * T.size
                      /\ \A h \in PooledOut : ~Overlap(A.ret, n, h.p, h.n)

C23_Witness ==
    /\ pool.lifetime
    /\ Len(pool.current_block_) = 2
    /\ pool.block_offset_ = BlockSize
    /\ Cardinality(PooledOut) = 2
    /\ \E h \in PooledOut : \E g \in PooledOut :
          h # g /\ h.p.b = g.p.b /\ h.p.o + h.n * T.size = g.p.o
    /\ \E n \in SmallCounts :
          /\ pool_allocate(AStart, T, n).exc = "none"
          /\ pool_allocate(AStart, T, n).ret.o = 0
          /\ Len(pool_allocate(AStart, T, n).pool.current_block_) = 3

\* C24: pool allocate(n), 0 < n <= max_size(), returns an address inside a
\* block of the pool exactly when n * sizeof(T) <= BlockSize / 4; above the
\* threshold it makes one call to ::operator new for n * sizeof(T) bytes,
\* returns that address, which is in no block, and leaves the block list, the
\* cursor and the free list as they were.
C24_ThresholdDecidesPoolOrSystem ==
    pool.lifetime =>
        \A n \in 1..pool_max_size(T) :
            LET A == pool_allocate(AStart, T, n)
            IN  IF n * T.size <= BlockSize \div 4
                THEN A.exc = "none" =>
                        /\ in_block(A, A.ret)
                        /\ \A k \in 1..Len(A.log) : A.log[k] = <<"operator new", sizeof_Block>>
                ELSE /\ A.pool = pool
                     /\ A.log = << <<"operator new", n * T.size>> >>
                     /\ A.exc \in {"none", "bad_alloc"}
                     /\ A.exc = "bad_alloc" => A.sys = sys
                     /\ A.exc = "none" =>
                           /\ ~in_block(A, A.ret)
                           /\ sys[A.ret.b] = 0
                           /\ A.sys = [sys EXCEPT ![A.ret.b] = n * T.size]

C24_Witness ==
    /\ pool.lifetime
    /\ pool.current_block_ # <<>>
    /\ pool.block_offset_ > 0
    /\ \E n \in SmallCounts :
          /\ pool_allocate(AStart, T, n).exc = "none"
          /\ in_block(AStart, pool_allocate(AStart, T, n).ret)
          /\ pool_allocate(AStart, T, n + 1).exc = "none"
          /\ (n + 1) * T.size > BlockSize \div 4
          /\ ~in_block(AStart, pool_allocate(AStart, T, n + 1).ret)

\* the parts of the system heap that are in use
LiveSys == {i \in SysIds : sys[i] # 0}

\* the blocks of the pool
Blocks(A) == {A.pool.current_block_[k] : k \in 1..Len(A.pool.current_block_)}

\* the calls to ::operator delete a call made, as the sequence of addresses
Deleted(A) == [k \in 1..Len(A.log) |-> A.log[k][2]]

\* C25: the memory the pool took from the system is given back exactly once.
\* Every block of the list is live until the destructor runs, which frees each
\* block once and nothing else; deallocate of a pointer inside a block frees
\* nothing; deallocate of a large allocation with its original count frees it,
\* once; and nothing in the heap is live that is neither a block nor an
\* outstanding allocation.
C25_PoolMemoryFreedExactlyOnce ==
    /\ LiveSys = (IF pool.lifetime THEN Blocks(AStart) ELSE {})
                     \cup {h.p.b : h \in out \ PooledOut}
    /\ pool.lifetime =>
          /\ Cardinality(Blocks(AStart)) = Len(pool.current_block_)
          /\ \A b \in Blocks(AStart) : sys[b] = sizeof_Block
          /\ \A h \in PooledOut :
                LET A == pool_deallocate(AStart, T, h.p, h.n)
                IN  A.log = <<>> /\ A.sys = sys /\ A.pool = pool
          /\ \A h \in out \ PooledOut : h.a = "pool_allocator" =>
                LET A == pool_deallocate(AStart, T, h.p, h.n)
                IN  /\ sys[h.p.b] = h.n * T.size
                    /\ A.log = << <<"operator delete", h.p.b>> >>
                    /\ A.sys = [sys EXCEPT ![h.p.b] = 0]
                    /\ A.pool = pool
          /\ LET A == pool_dtor(AStart)
             IN  /\ Deleted(A) = pool.current_block_
                 /\ \A k \in 1..Len(A.log) : A.log[k][1] = "operator delete"
                 /\ A.sys = [i \in SysIds |-> IF i \in Blocks(AStart) THEN 0 ELSE sys[i]]
                 /\ A.pool.current_block_ = <<>>

C25_Witness ==
    /\ pool.lifetime
    /\ Len(pool.current_block_) = 2
    /\ \E h \in out \ PooledOut :
          /\ h.a = "pool_allocator"
          /\ pool_deallocate(AStart, T, h.p, h.n).sys[h.p.b] = 0
    /\ Len(pool_dtor(AStart).log) = 2

\* what a vector reports after a call: size(), capacity(), the element
\* sequence, the exception thrown, and the position the returned iterator or
\* reference designates
Observed(M) ==
    [size |-> size(M, "v"), capacity |-> capacity(M, "v"),
     elements |-> Elements(M, "v"), exc |-> M.exc,
     result |-> IF M.ret = NULL THEN -1 ELSE M.ret.o - begin(M, "v").o]

Larger(a, b) == IF a >= b THEN a ELSE b

\* C27: ensure_capacity(needed) leaves the vector and the heap untouched and
\* calls nothing when needed <= capacity(); otherwise it makes one allocation
\* of exactly max(needed, 1 if capacity() = 0 else 2 * capacity()) objects,
\* which becomes the capacity, and keeps the elements. So a push_back into a
\* full vector of capacity c > 0 leaves capacity 2c, and a push_back into an
\* empty vector without a buffer leaves capacity 1.
C27_EnsureCapacityGrowth ==
    alive =>
       /\ \A needed \in 0..(2 * MaxSize + 3) :
             LET c == capacity(Start, "v")
                 M == ensure_capacity(Start, "v", needed, 0)
                 grown == Larger(needed, IF c = 0 THEN 1 ELSE 2 * c)
             IN  IF needed <= c
                 THEN M = Start
                 ELSE /\ capacity(M, "v") = grown
                      /\ size(M, "v") = size(Start, "v")
                      /\ (LiveRange(Start, "v") => Elements(M, "v") = Elements(Start, "v"))
                      /\ SelectSeq(M.log, LAMBDA ev : ev.e = "allocate")
                            = <<Event("allocate", begin(M, "v"), grown, FALSE)>>
       /\ \A c \in push_back_calls({0}) \cup push_back_move_calls({0}) :
             LET c0 == capacity(Start, "v")
             IN  /\ (size(Start, "v") = c0 /\ c0 > 0) => capacity(c.m, "v") = 2 * c0
                 /\ (size(Start, "v") = c0 /\ c0 = 0) => capacity(c.m, "v") = 1
                 /\ size(Start, "v") < c0 => capacity(c.m, "v") = c0

\* a full vector of capacity 3 whose push_back leaves capacity 6, while
\* ensure_capacity(7) allocates exactly 7
C27_Witness ==
    /\ alive
    /\ size(Start, "v") = 3 /\ capacity(Start, "v") = 3
    /\ \E c \in push_back_calls({0}) : capacity(c.m, "v") = 6
    /\ capacity(ensure_capacity(Start, "v", 7, 0), "v") = 7
    /\ ensure_capacity(Start, "v", 3, 0) = Start

\* the offsets from begin() of the slots a call destroyed, in the order of
\* the destroy calls
Destroyed(M) ==
    LET d == SelectSeq(M.log, LAMBDA ev : ev.e = "destroy")
    IN  [k \in 1..Len(d) |-> d[k].o - begin(M, "v").o]

\* C28: erase(begin() + i, begin() + j) with i < j destroys exactly j - i
\* objects, those of the trailing slots [size() - (j - i), size()) the shift
\* left duplicated, and no slot that is inside [begin(), end()) after the call.
C28_EraseDestroysTrailingSlots ==
    (alive /\ LiveRange(Start, "v") /\ RawTail(Start, "v")) =>
        \A c \in erase_range_calls : c.i < c.j =>
            LET n == size(Start, "v")
                w == c.j - c.i
            IN  /\ Len(Destroyed(c.m)) = w
                /\ Destroyed(c.m) = [k \in 1..w |-> n - w + k - 1]
                /\ \A k \in DOMAIN Destroyed(c.m) : Destroyed(c.m)[k] >= size(c.m, "v")

\* C29: of uninitialized_copy, uninitialized_fill and uninitialized_fill_n
\* into n raw slots from d on: when the k-th construction throws, the k - 1
\* objects constructed before it are destroyed, first to last, the exception
\* reaches the caller and the destination is raw as before; otherwise each of
\* the n slots is constructed once with its value and d + n is returned.
\* Neither way is memory allocated or freed, or any other slot touched.
C29_UninitializedRollsBack ==
    \A c \in RawCalls :
        /\ \A i \in DOMAIN c.m.log : c.m.log[i].e \in {"construct", "destroy"}
        /\ \A b \in BufIds : Len(c.m.heap[b]) = Len(heap[b])
        /\ IF c.f \in 1..c.n
           THEN /\ c.m.exc = "element"
                /\ c.m.log =
                      [i \in 1..(c.f - 1) |-> Event("construct", PtrAdd(c.d, i - 1), 1, FALSE)]
                      \o [i \in 1..(c.f - 1) |-> Event("destroy", PtrAdd(c.d, i - 1), 1, TRUE)]
                /\ c.m.heap = heap
           ELSE /\ c.m.exc = "none"
                /\ c.m.log = [i \in 1..c.n |-> Event("construct", PtrAdd(c.d, i - 1), 1, FALSE)]
                /\ c.m.ret = PtrAdd(c.d, c.n)
                /\ \A b \in RawBufs : \A o \in 0..(RawLen - 1) :
                      Slot(c.m, Ptr(b, o)) =
                          IF b = c.d.b /\ o >= c.d.o /\ o < c.d.o + c.n
                          THEN c.w[o - c.d.o + 1]
                          ELSE Slot(Start, Ptr(b, o))

\* one buffer holds RawLen objects, the other is raw: a copy whose last
\* construction throws destroys RawLen - 1 objects, and a fill_n and a fill
\* of the whole raw buffer succeed
C29_Witness ==
    /\ \E c \in uninitialized_copy_calls :
          /\ c.n = RawLen /\ c.f = RawLen
          /\ Len(c.m.log) = 2 * (RawLen - 1)
          /\ c.m.exc = "element"
    /\ \E c \in uninitialized_fill_n_calls :
          c.n = RawLen /\ c.f = 0 /\ c.m.ret = PtrAdd(c.d, RawLen)
    /\ \E c \in uninitialized_fill_calls :
          c.n = RawLen /\ c.f = 2 /\ c.m.exc = "element"

\* C30: v.push_back(v[i]) appends a copy of the value v[i] had before the
\* call, also when the call reallocates: the argument is read while the buffer
\* it lies in is still allocated, that is, the call does not free that buffer
\* before it constructs the new element.
C30_PushBackOfOwnElement ==
    (alive /\ LiveRange(Start, "v") /\ RawTail(Start, "v")) =>
        \A c \in push_back_ref_calls({0}) :
            /\ c.m.exc = "none"
            /\ Elements(c.m, "v") = Elements(Start, "v") \o c.w
            /\ \A k \in DOMAIN c.m.log :
                  c.m.log[k].e = "deallocate" => c.m.log[k].b # It(c.i).b
====
